---- MODULE Spec2Model ----
(***************************************************************************)
(* Model of the Telegram question monitor (alekkss/vopros-AI).             *)
(*                                                                         *)
(*  - the sent_questions table of SentQuestionRepository and its four      *)
(*    operations (is_already_sent, mark_as_sent, cleanup_old_records,      *)
(*    get_statistics);                                                     *)
(*  - TelegramMonitorService: validate_chats, process_chat, monitor_chats  *)
(*    and start_continuous_monitoring, with the heuristic filter, the      *)
(*    three AI gates and the bot adapter's send_question / send_text.      *)
(*                                                                         *)
(* Spec      : the monitoring loop as main() starts it.                    *)
(* SpecStore : a client calling the repository's operations in any order.  *)
(***************************************************************************)
EXTENDS Integers, Sequences, FiniteSets, Bags, TLC

(***************************************************************************)
(* Bounds of the model.                                                    *)
(***************************************************************************)
NumChats == 2        \* configured chat links 1..NumChats
MaxMsgId == 2        \* message ids 1..MaxMsgId
MaxTicks == 2        \* iterations of the monitoring loop explored
MaxRows == 2         \* rows the table grows to under the repository client
MaxTime == 1         \* clock values 0..MaxTime, in days
MaxReplyLen == 3     \* characters of a reply to a yes/no check
MaxCalls == 3        \* calls a caller makes on the client adapter

VARIABLES
    \* ---- SentQuestionRepository (sqlite file) ----
    rows,          \* table sent_questions: bag of rows (without the surrogate id)
    now,           \* datetime.now(), in days
    lastCall,      \* the repository call made last and what it returned
    marked,        \* (history) stored keys for which mark_as_sent returned True
    \* ---- start_continuous_monitoring / monitor_chats ----
    loopPc,        \* position of start_continuous_monitoring
    vi,            \* validate_chats: index of the chat link being checked
    valid_chats,   \* validate_chats: the links that resolved
    iteration,     \* iteration counter of the while True loop
    ci,            \* monitor_chats: index into valid_chats
    results,       \* monitor_chats: chat_link -> questions_count
    \* ---- process_chat ----
    pc,            \* position inside process_chat
    chat,          \* chat.id of the resolved chat, 0 before
    messages,      \* the fetched batch
    filtered_questions,
    qi,            \* index of the candidate being checked by the AI
    suitable_questions,
    si,            \* index of the suitable question being sent
    sent_count,
    chat_topic,    \* the topic determine_chat_topic returned, empty before
    runResult,     \* how the run ended: returned value or raised exception
    \* ---- history ----
    rows0,         \* the table as it was when the current run started
    passed,        \* message ids of this run the AI answered three times yes for
    sends,         \* send_question calls of this run, in order
    watchDelivered,\* how often send_question returned True for the followed message (capped at 2)
    failedEarlier, \* its send failed in an earlier tick
    failedNow,     \* its send failed in the current tick
    texts_sent,    \* number of send_text calls made so far
    summary,       \* the statistics message sent in the current iteration
    raisedLast,    \* the last process_chat call for the followed chat raised
    topicFailed,   \* the backend call of determine_chat_topic failed in this run
    gateFailed,    \* message ids of this run for which a backend call of a check failed
    gate_topic,    \* the topic handed to the last is_question_on_topic call of this run
    called,        \* chat links process_chat was called with in this iteration, in order
    gated,         \* message ids handed to the AI checks in this run, in order
    gate_calls,    \* the AI checks called for the candidate checked last, with their answers
    topic_call,    \* the determine_chat_topic calls of this run: how many, the texts passed
    raised_in,     \* the exception raised inside the try block of process_chat in this run, and the step it was raised in
    fetched,       \* get_recent_messages was called in this run
    runs,          \* process_chat calls started and ended so far
    answer,        \* the last reply handed to a yes/no check, the check and what it returned
    stream,        \* the messages iter_messages gave in the fetch of this run
    sink,          \* the last call of the bot adapter: the text given, the text handed to bot.send_message, the result
    \* ---- main ----
    env,           \* the environment variables the process was started with
    exit_code,     \* what main returned, -1 while it runs
    connected,     \* TelegramClientAdapter._is_connected
    cancelled_at,  \* (history) where monitor_task was when main cancelled it
    telethon,      \* TelegramClientAdapter._client is not None
    components,    \* which of repository and bot_adapter main has created
    cleanup,       \* (history) the calls of the finally block of main
    client_log     \* (history) the calls of the client adapter made by its caller

svars == <<rows, now, lastCall, marked>>
lvars == <<loopPc, vi, valid_chats, iteration, ci, results>>
rvars == <<pc, chat, messages, filtered_questions, qi, suitable_questions, si,
           sent_count, chat_topic, runResult>>
hvars == <<rows0, passed, sends, watchDelivered, failedEarlier, failedNow,
           texts_sent, summary, raisedLast, topicFailed, gateFailed, gate_topic,
           called, gated,
           gate_calls, topic_call, raised_in, fetched, runs, answer, stream, sink>>
mvars == <<env, exit_code, connected, cancelled_at, telethon, components, cleanup,
           client_log>>

\* the history a step before the AI checks leaves alone
HistoryOfSends ==
    <<rows0, passed, sends, watchDelivered, failedEarlier, failedNow, texts_sent,
      summary, raisedLast, topicFailed, gateFailed, gate_topic, called, gated,
      gate_calls, topic_call, runs, answer, sink>>
vars == <<svars, lvars, rvars, hvars, mvars>>

MsgIds == 1..MaxMsgId

\* the (chat id, message id) pair whose deliveries are followed across ticks
watch == <<1, 1>>
Times == 0..MaxTime

(***************************************************************************)
(* Python values: chat_id is "int | str" (models/sent_question.py:35).     *)
(***************************************************************************)
PyInt(n) == [n |-> n, kind |-> "int", s |-> ""]
PyStr(s) == [n |-> 0, kind |-> "str", s |-> s]

Digit == <<"0", "1", "2", "3", "4", "5", "6", "7", "8", "9">>

RECURSIVE Dec(_)
Dec(n) == IF n < 10 THEN Digit[n + 1] ELSE Dec(n \div 10) \o Digit[(n % 10) + 1]

\* str(chat_id)
Str(v) == IF v.kind = "str" THEN v.s
          ELSE IF v.n < 0 THEN "-" \o Dec(0 - v.n) ELSE Dec(v.n)

\* what the repository's client passes: chat ids as int and as text, message
\* ids, question hashes
ClientChatIds == {PyInt(1), PyInt(2), PyStr("1")}
ClientMsgIds == {1, 2}
Hashes == {"h1", "h2"}

(***************************************************************************)
(* SentQuestionRepository                                                  *)
(***************************************************************************)
NoCall == [op |-> "none", chat_id |-> PyInt(0), message_id |-> 0,
           result |-> 0, error |-> FALSE, before |-> 0, at |-> 0]

\* the key a call is stored under: (str(chat_id), message_id)
StoredKey(chat_id, message_id) == <<Str(chat_id), message_id>>

RowKey(r) == <<r.chat_id, r.message_id>>

\* a query that forgets the chat: "WHERE message_id = ?"
Matching_message_only(table, chat_id, message_id) ==
    {r \in BagToSet(table) : r.message_id = message_id}

\* rows matched by "WHERE chat_id = ? AND message_id = ?"
Matching(table, chat_id, message_id) ==
    {r \in BagToSet(table) : r.chat_id = Str(chat_id) /\ r.message_id = message_id}

RECURSIVE Copies(_, _)
Copies(table, rs) ==
    IF rs = {} THEN 0
    ELSE LET r == CHOOSE x \in rs : TRUE
         IN  CopiesIn(r, table) + Copies(table, rs \ {r})

\* SELECT COUNT(*) FROM sent_questions WHERE chat_id = ? AND message_id = ?
CountMatching(table, chat_id, message_id) ==
    Copies(table, Matching(table, chat_id, message_id))

\* a table without the UNIQUE constraint
UniqueConflict_none(table, row) == FALSE

\* a constraint that also covers question_hash
UniqueConflict_with_hash(table, row) ==
    \E r \in BagToSet(table) :
        /\ r.chat_id = row.chat_id
        /\ r.message_id = row.message_id
        /\ r.question_hash = row.question_hash

\* UNIQUE(chat_id, message_id): would the new row conflict with a stored one
UniqueConflict(table, row) ==
    \E r \in BagToSet(table) :
        r.chat_id = row.chat_id /\ r.message_id = row.message_id

\* INSERT OR REPLACE: the stored row of the key gives way to the new one
InsertOrIgnore_replace(table, chat_id, message_id, question_hash, sent_at) ==
    LET row == [chat_id |-> Str(chat_id), message_id |-> message_id,
                question_hash |-> question_hash, sent_at |-> sent_at]
        others == {r \in BagToSet(table) : RowKey(r) # RowKey(row)}
    IN  [r \in others |-> table[r]] (+) SetToBag({row})

\* INSERT OR IGNORE INTO sent_questions (chat_id, message_id, question_hash, sent_at)
InsertOrIgnore(table, chat_id, message_id, question_hash, sent_at) ==
    LET row == [chat_id |-> Str(chat_id), message_id |-> message_id,
                question_hash |-> question_hash, sent_at |-> sent_at]
    IN  IF UniqueConflict(table, row) THEN table ELSE table (+) SetToBag({row})

\* a check that answers "sent" when the query fails
is_already_sent_error_true(chat_id, message_id, error) ==
    /\ lastCall' = [op |-> "is_already_sent", chat_id |-> chat_id,
                    message_id |-> message_id, error |-> error, before |-> 0,
                    at |-> now,
                    result |-> IF error THEN TRUE
                               ELSE CountMatching(rows, chat_id, message_id) > 0]
    /\ UNCHANGED <<rows, now, marked, lvars, rvars, hvars, mvars>>

\* is_already_sent(chat_id, message_id); error: sqlite3.Error inside the try
is_already_sent(chat_id, message_id, error) ==
    /\ lastCall' = [op |-> "is_already_sent", chat_id |-> chat_id,
                    message_id |-> message_id, error |-> error, before |-> 0,
                    at |-> now,
                    result |-> IF error THEN FALSE
                               ELSE CountMatching(rows, chat_id, message_id) > 0]
    /\ UNCHANGED <<rows, now, marked, lvars, rvars, hvars, mvars>>

\* a plain INSERT whose constraint failure is reported as False
mark_as_sent_duplicate_fails(chat_id, message_id, question_hash, sent_at, error) ==
    LET after == InsertOrIgnore(rows, chat_id, message_id, question_hash, sent_at)
    IN  /\ error \/ after = rows \/ BagCardinality(rows) < MaxRows
        /\ rows' = IF error THEN rows ELSE after
        /\ marked' = IF error \/ after = rows THEN marked
                     ELSE marked \cup {StoredKey(chat_id, message_id)}
        /\ lastCall' = [op |-> "mark_as_sent", chat_id |-> chat_id,
                        message_id |-> message_id, error |-> error,
                        before |-> CountMatching(rows, chat_id, message_id),
                        at |-> now,
                        result |-> ~error /\ after # rows]
        /\ UNCHANGED <<now, lvars, rvars, hvars, mvars>>

\* mark_as_sent(sent_question); error: sqlite3.Error inside the try (rolled back)
mark_as_sent(chat_id, message_id, question_hash, sent_at, error) ==
    LET after == InsertOrIgnore(rows, chat_id, message_id, question_hash, sent_at)
    IN  /\ error \/ after = rows \/ BagCardinality(rows) < MaxRows
        /\ rows' = IF error THEN rows ELSE after
        /\ marked' = IF error THEN marked
                     ELSE marked \cup {StoredKey(chat_id, message_id)}
        /\ lastCall' = [op |-> "mark_as_sent", chat_id |-> chat_id,
                        message_id |-> message_id, error |-> error,
                        before |-> CountMatching(rows, chat_id, message_id),
                        at |-> now,
                        result |-> ~error]
        /\ UNCHANGED <<now, lvars, rvars, hvars, mvars>>

\* "WHERE sent_at <= ?": the rows that stay
NotOlderThan_inclusive(table, cutoff) ==
    [r \in {x \in BagToSet(table) : x.sent_at > cutoff} |-> table[r]]

\* DELETE FROM sent_questions WHERE sent_at < cutoff: the rows that stay
NotOlderThan(table, cutoff) ==
    [r \in {x \in BagToSet(table) : ~(x.sent_at < cutoff)} |-> table[r]]

\* cleanup_old_records(days_to_keep)
cleanup_old_records(days_to_keep, error) ==
    LET cutoff_date == now - days_to_keep
        kept == NotOlderThan(rows, cutoff_date)
    IN  /\ rows' = IF error THEN rows ELSE kept
        /\ lastCall' = [op |-> "cleanup_old_records", chat_id |-> PyInt(0),
                        message_id |-> days_to_keep, error |-> error,
                        before |-> 0, at |-> now,
                        result |-> IF error THEN 0
                                   ELSE BagCardinality(rows) - BagCardinality(kept)]
        /\ UNCHANGED <<now, marked, lvars, rvars, hvars, mvars>>

\* SELECT COUNT(*) FROM sent_questions WHERE sent_at >= cutoff
CountSince(table, cutoff) ==
    Copies(table, {r \in BagToSet(table) : r.sent_at >= cutoff})

\* get_statistics()
get_statistics(error) ==
    LET total == BagCardinality(rows)
        last_24h == CountSince(rows, now - 1)
        last_7d == CountSince(rows, now - 7)
    IN  /\ lastCall' = [op |-> "get_statistics", chat_id |-> PyInt(0),
                        message_id |-> 0,
                        result |-> IF error
                                   THEN [total |-> 0, last_24h |-> 0, last_7d |-> 0]
                                   ELSE [total |-> total, last_24h |-> last_24h,
                                         last_7d |-> last_7d],
                        error |-> error, before |-> 0, at |-> now]
        /\ UNCHANGED <<rows, now, marked, lvars, rvars, hvars, mvars>>

\* time passes
AdvanceClock ==
    /\ now < MaxTime
    /\ now' = now + 1
    /\ UNCHANGED <<rows, lastCall, marked, lvars, rvars, hvars, mvars>>

(***************************************************************************)
(* QuestionFilterService: a text is described by what the checks of        *)
(* is_real_question look at. `length` is len(text.strip()), `padding` the  *)
(* number of whitespace characters strip() removes, `interrogatives` the   *)
(* question words found in the lowered text (Latin letters for Cyrillic).   *)
(***************************************************************************)
\* len(text)
RawLength(text) == text.length + text.padding

\* "Как автоматизировать выгрузку товаров ... через API?"
QuestionText ==
    [length |-> 60, padding |-> 0, blank |-> FALSE, links |-> FALSE, newlines |-> 0,
     useless |-> FALSE, self_reflection |-> FALSE, rhetorical_pattern |-> FALSE,
     question_mark |-> TRUE, interrogatives |-> {"kak"}, boring |-> FALSE,
     question_pattern |-> TRUE, exclusion |-> FALSE, about_self |-> FALSE]

\* "Привет! Как дела у всех?"
GreetingText ==
    [length |-> 24, padding |-> 0, blank |-> FALSE, links |-> FALSE, newlines |-> 0,
     useless |-> FALSE, self_reflection |-> FALSE, rhetorical_pattern |-> FALSE,
     question_mark |-> TRUE, interrogatives |-> {"kak"}, boring |-> TRUE,
     question_pattern |-> TRUE, exclusion |-> FALSE, about_self |-> FALSE]

SampleTexts == {QuestionText, GreetingText}

\* the words of the first QUESTION_PATTERNS alternative that are single words:
\* как, что, где, когда, почему, зачем, кто, какой
QuestionWords == {"kak", "chto", "gde", "kogda", "pochemu", "zachem", "kto", "kakoi"}

\* a text that holds "какой" holds "как"
WordsOf(text) == text.interrogatives \cup (IF "kakoi" \in text.interrogatives THEN {"kak"} ELSE {})

\* re.search(r'(как|что|почему|зачем|где)', text_lower)
CoreWords == {"kak", "chto", "pochemu", "zachem", "gde"}
HasCoreWord(text) == WordsOf(text) \cap CoreWords # {}

is_rhetorical_question(text) ==
    IF text.rhetorical_pattern THEN TRUE
    ELSE IF text.length < 40 /\ text.question_mark /\ ~HasCoreWord(text) THEN TRUE
    ELSE FALSE

\* a filter without the upper limit of the length
is_real_question_no_max(text) ==
    IF text.blank THEN FALSE
    ELSE IF text.length < 20 THEN FALSE
    ELSE IF text.links THEN FALSE
    ELSE IF text.newlines > 3 THEN FALSE
    ELSE IF text.useless THEN FALSE
    ELSE IF text.self_reflection THEN FALSE
    ELSE IF is_rhetorical_question(text) THEN FALSE
    ELSE IF text.boring THEN FALSE
    ELSE IF ~text.question_pattern THEN FALSE
    ELSE IF text.exclusion THEN FALSE
    ELSE IF text.about_self THEN FALSE
    ELSE TRUE

is_real_question(text) ==
    IF text.blank THEN FALSE
    ELSE IF text.length < 20 \/ text.length > 700 THEN FALSE
    ELSE IF text.links THEN FALSE
    ELSE IF text.newlines > 3 THEN FALSE
    ELSE IF text.useless THEN FALSE
    ELSE IF text.self_reflection THEN FALSE
    ELSE IF is_rhetorical_question(text) THEN FALSE
    ELSE IF text.boring THEN FALSE
    ELSE IF ~text.question_pattern THEN FALSE
    ELSE IF text.exclusion THEN FALSE
    ELSE IF text.about_self THEN FALSE
    ELSE TRUE

IsQuestionMessage(m) == is_real_question(m.text)

\* a filter that returns the stripped text in place of the text it was given
filter_questions_stripped(msgs) ==
    LET kept == SelectSeq(msgs, IsQuestionMessage)
    IN  [i \in DOMAIN kept |-> [kept[i] EXCEPT !.text.padding = 0]]

\* a filter that returns the questions newest first
filter_questions_reversed(msgs) ==
    LET kept == SelectSeq(msgs, IsQuestionMessage)
    IN  [i \in DOMAIN kept |-> kept[Len(kept) + 1 - i]]

\* [(text, metadata) for text, metadata in messages if is_real_question(text)]
filter_questions(msgs) == SelectSeq(msgs, IsQuestionMessage)

(***************************************************************************)
(* The chat source: chat link c resolves to the chat with id c; a fetch    *)
(* yields messages with distinct ids.                                      *)
(***************************************************************************)
ChatLinks == 1..NumChats
chat_links == [i \in 1..NumChats |-> i]

Message == [message_id : MsgIds, text : SampleTexts]

Batches ==
    {b \in UNION {[1..n -> Message] : n \in 0..MaxMsgId} :
        \A i, j \in DOMAIN b : i # j => b[i].message_id # b[j].message_id}

ResolveOutcomes == {"ok", "ValueError", "ConnectionError"}
FetchErrors == {"ConnectionError", "PermissionError"}

MessageIds(msgs) == [i \in DOMAIN msgs |-> msgs[i].message_id]

EmptyResults == [c \in {} |-> 0]

(***************************************************************************)
(* AIAnalyzerService: what a chat.completions.create call gives. A text is *)
(* a sequence of characters; Latin letters stand for the Cyrillic ones     *)
(* ("d", "a" for the two letters of the Russian yes).                      *)
(***************************************************************************)
BackendError == [kind |-> "error", content |-> <<>>]      \* the call raises
NoChoices == [kind |-> "no_choices", content |-> <<>>]    \* response.choices is empty
NullContent == [kind |-> "null", content |-> <<>>]        \* message.content is None
Reply(text) == [kind |-> "content", content |-> text]

\* no text came back: the call raised, gave no choices, or gave None (whose
\* .lower() / .strip() raises inside the try)
BackendFailed(response) == response.kind # "content"

YesReply == Reply(<<"D", "a">>)
NoReply == Reply(<<"n", "e", "t">>)
TopicReply == Reply(<<" ", "b", "o", "t", "y", "!", " ">>)

AnsweredReplies == {YesReply, NoReply}
AIResponses == {BackendError, NoChoices, NullContent, YesReply, NoReply}
TopicResponses == {BackendError, NoChoices, NullContent, TopicReply}

(***************************************************************************)
(* TelegramBotAdapter: a text is the sequence of its characters.           *)
(***************************************************************************)
MAX_MESSAGE_LENGTH == 4096

NoSend == [result |-> FALSE, method |-> "none", given |-> <<>>, sent |-> <<>>,
           outcome |-> "ok"]

\* a cut at the maximum with the three dots added after it
Truncated_then_dots(text) ==
    IF Len(text) > MAX_MESSAGE_LENGTH
    THEN SubSeq(text, 1, MAX_MESSAGE_LENGTH) \o <<".", ".", ".">>
    ELSE text

\* if len(text) > MAX_MESSAGE_LENGTH: text = text[:MAX_MESSAGE_LENGTH - 3] + "..."
Truncated(text) ==
    IF Len(text) > MAX_MESSAGE_LENGTH
    THEN SubSeq(text, 1, MAX_MESSAGE_LENGTH - 3) \o <<".", ".", ".">>
    ELSE text

\* what await self._bot.send_message(...) does: returns, or raises one of these
SendOutcomes ==
    {"ok", "TelegramForbiddenError", "TelegramBadRequest", "TelegramNetworkError",
     "Exception"}

\* one call of send_question (message_text = question.format_for_bot()) or of
\* send_text: the text is cut, handed to send_message, every exception gives False
BotSend(method, text, outcome) ==
    /\ sink' = [result |-> (outcome = "ok"), method |-> method, given |-> text,
                sent |-> Truncated(text), outcome |-> outcome]
    /\ UNCHANGED <<svars, lvars, rvars, mvars, rows0, passed, sends, watchDelivered,
                   failedEarlier, failedNow, texts_sent, summary, raisedLast,
                   topicFailed, gateFailed, gate_topic, called, gated, gate_calls,
                   topic_call, raised_in, fetched, runs, answer, stream>>

bot_send_question(message_text, outcome) == BotSend("send_question", message_text, outcome)
bot_send_text(text, outcome) == BotSend("send_text", text, outcome)

\* texts around the maximum length, their characters in a period of three or five
Letters == <<"a", "b", "c", "d", "e">>
PeriodicText(n, period) == [i \in 1..n |-> Letters[(i % period) + 1]]
SinkLengths ==
    {0, 1, MAX_MESSAGE_LENGTH - 4, MAX_MESSAGE_LENGTH - 3, MAX_MESSAGE_LENGTH - 1,
     MAX_MESSAGE_LENGTH, MAX_MESSAGE_LENGTH + 1, MAX_MESSAGE_LENGTH + 4}
SinkTexts == {PeriodicText(n, period) : n \in SinkLengths, period \in {3, 5}}

NextSink ==
    \/ \E text \in SinkTexts, outcome \in SendOutcomes : bot_send_question(text, outcome)
    \/ \E text \in SinkTexts, outcome \in SendOutcomes : bot_send_text(text, outcome)

\* the replies handed to the yes/no checks on their own
ReplyChars == {"d", "a", "D", "A", "n"}
ReplyTexts == UNION {[1..n -> ReplyChars] : n \in 0..MaxReplyLen}
ClassifierReplies == {BackendError, NoChoices, NullContent} \cup {Reply(t) : t \in ReplyTexts}
NoAnswer == [result |-> FALSE, response |-> NoChoices, check |-> "none"]
Answer(check, response, result) == [result |-> result, response |-> response, check |-> check]

\* str.lower() on the letters used here
LowerChar(c) == IF c = "D" THEN "d" ELSE IF c = "A" THEN "a" ELSE c
Lower(text) == [i \in DOMAIN text |-> LowerChar(text[i])]

\* sub in text
Contains(text, sub) ==
    \E i \in 0..(Len(text) - Len(sub)) :
        \A j \in 1..Len(sub) : text[i + j] = sub[j]

\* str.strip()
RECURSIVE Strip(_)
Strip(text) ==
    IF text = <<>> THEN text
    ELSE IF Head(text) = " " THEN Strip(Tail(text))
    ELSE IF text[Len(text)] = " " THEN Strip(SubSeq(text, 1, Len(text) - 1))
    ELSE text

\* characters that [^\w\s,\.] matches
Special == {"!", "?", "'", ":"}
KeptInTopic(c) == c \notin Special

\* "Общая тематика не определена"
FallbackTopic == <<"Obshchaya tematika ne opredelena">>

\* what determine_chat_topic returns
TopicOf(response) ==
    IF response.kind = "error" THEN FallbackTopic
    ELSE IF response.kind = "no_choices" THEN FallbackTopic
    ELSE IF response.kind = "null" THEN FallbackTopic
    ELSE Strip(SelectSeq(Strip(response.content), KeptInTopic))

\* a check that takes only the bare word for a yes
SaysYes_exact(response) ==
    IF response.kind = "error" THEN FALSE
    ELSE IF response.kind = "no_choices" THEN FALSE
    ELSE IF response.kind = "null" THEN FALSE
    ELSE Lower(response.content) = <<"d", "a">>

\* 'да' in answer, answer = response.choices[0].message.content.lower()
SaysYes(response) ==
    IF response.kind = "error" THEN FALSE
    ELSE IF response.kind = "no_choices" THEN FALSE
    ELSE IF response.kind = "null" THEN FALSE
    ELSE Contains(Lower(response.content), <<"d", "a">>)

\* a check that takes a failed backend call for a yes
is_question_on_topic_fail_open(response) ==
    IF response.kind = "content" THEN SaysYes(response) ELSE TRUE

is_question_on_topic(response) == SaysYes(response)
can_answer_confidently(response) == SaysYes(response)
is_potential_order(response) == SaysYes(response)

\* a gate that does not ask whether the question is a potential order
IsSuitable_without_order(is_on_topic, can_answer, is_order) ==
    IF ~is_on_topic THEN FALSE
    ELSE IF ~can_answer THEN FALSE
    ELSE TRUE

\* the awaits of one pass of the loop over filtered_questions: a check is
\* awaited only when no "continue" was reached before it
GateCalls(is_on_topic, can_answer, is_order) ==
    <<[answer |-> is_on_topic, check |-> "is_question_on_topic"]>>
    \o (IF ~is_on_topic THEN <<>>
        ELSE <<[answer |-> can_answer, check |-> "can_answer_confidently"]>>
             \o (IF ~can_answer THEN <<>>
                 ELSE <<[answer |-> is_order, check |-> "is_potential_order"]>>))

\* what the backend gives for one candidate: a check that is not called gets
\* no reply of its own (the reply before it stands in its place)
AskedReplies(replies) ==
    {r \in replies \X replies \X replies :
        /\ ~SaysYes(r[1]) => r[2] = r[1]
        /\ ~SaysYes(r[2]) => r[3] = r[2]}

\* the three AI answers of one candidate, asked in order, first "no" ends it
IsSuitable(is_on_topic, can_answer, is_order) ==
    IF ~is_on_topic THEN FALSE
    ELSE IF ~can_answer THEN FALSE
    ELSE IF ~is_order THEN FALSE
    ELSE TRUE

NoResult == [kind |-> "none", error |-> "none", value |-> 0]
Returned(n) == [kind |-> "return", error |-> "none", value |-> n]
Raised(e) == [kind |-> "raise", error |-> e, value |-> 0]

NoSummary == [iteration |-> 0, total_questions |-> 0]

NotRaised == [error |-> "none", step |-> "none"]

\* the exceptions the first except branch of process_chat re-raises
Reraised == {"ValueError", "PermissionError", "ConnectionError"}

\* a process_chat without the second except branch
Propagated_unchanged(error) == error

\* what leaves process_chat for an exception raised inside its try block:
\* "except (ValueError, PermissionError, ConnectionError): raise", and
\* "except Exception as e: raise ConnectionError(...) from e"
Propagated(error) == IF error \in Reraised THEN error ELSE "ConnectionError"

\* all_message_texts: the text of every fetched message
all_message_texts(msgs) == [i \in DOMAIN msgs |-> msgs[i].text]

NoTopicCall == [count |-> 0, input |-> <<>>]
TopicCall(before, texts) == [count |-> before.count + 1, input |-> texts]

\* sum(results.values())
RECURSIVE SumValues(_)
SumValues(f) ==
    IF DOMAIN f = {} THEN 0
    ELSE LET c == CHOOSE x \in DOMAIN f : TRUE
         IN  f[c] + SumValues([d \in DOMAIN f \ {c} |-> f[d]])

\* the locals of process_chat before the call and after it ended
NoRun ==
    /\ chat' = 0
    /\ messages' = <<>>
    /\ filtered_questions' = <<>>
    /\ qi' = 1
    /\ suitable_questions' = <<>>
    /\ si' = 1
    /\ sent_count' = 0
    /\ chat_topic' = <<>>
    /\ topicFailed' = FALSE
    /\ gateFailed' = {}
    /\ gate_topic' = <<>>
    /\ gated' = <<>>
    /\ gate_calls' = <<>>
    /\ raised_in' = NotRaised
    /\ fetched' = FALSE
    /\ topic_call' = NoTopicCall
    /\ runResult' = NoResult
    /\ rows0' = rows
    /\ passed' = {}
    /\ sends' = <<>>
    /\ stream' = <<>>

\* a process_chat call starts (monitor_chats line 281)
BeginRun == pc' = "resolve" /\ NoRun

\* iteration += 1; monitor_chats(valid_chats) starts with its first chat
BeginIteration ==
    /\ iteration' = iteration + 1
    /\ loopPc' = "monitor"
    /\ ci' = 1
    /\ results' = EmptyResults
    /\ summary' = NoSummary
    /\ called' = <<valid_chats[1]>>
    /\ runs' = [runs EXCEPT !.started = @ + 1]
    /\ BeginRun

(***************************************************************************)
(* validate_chats and the start of start_continuous_monitoring             *)
(***************************************************************************)
\* one pass of the for loop of validate_chats: a chat that does not resolve
\* sends the caller to `failed_to` ("continue": the except branches swallow the
\* error and the loop goes on); after the last chat the caller goes to
\* `empty_to` when no chat resolved
ValidatePass(outcome, failed_to, empty_to) ==
    /\ loopPc = "validate"
    /\ vi <= NumChats
    /\ LET valid == IF outcome = "ok" THEN Append(valid_chats, chat_links[vi])
                    ELSE valid_chats
       IN  /\ valid_chats' = valid
           /\ vi' = vi + 1
           /\ loopPc' = IF outcome # "ok" /\ failed_to # "continue" THEN failed_to
                        ELSE IF vi < NumChats THEN "validate"
                        ELSE IF valid = <<>> THEN empty_to
                        ELSE "start_message"
    /\ UNCHANGED <<iteration, ci, results, svars, rvars, hvars, mvars>>

\* a validation that lets the error of get_chat_info escape
validate_chat_raises(outcome) == ValidatePass(outcome, "raised", "stopped")

\* a caller that starts the loop over an empty list
validate_chat_starts_empty(outcome) == ValidatePass(outcome, "continue", "start_message")

\* one pass of the for loop of validate_chats; after the last chat the caller
\* returns at once when no chat resolved
validate_chat(outcome) == ValidatePass(outcome, "continue", "stopped")

\* await send_text(start_message), then the first iteration begins
send_start_message(success) ==
    /\ loopPc = "start_message"
    /\ texts_sent' = texts_sent + 1
    /\ BeginIteration
    /\ UNCHANGED <<vi, valid_chats, svars, watchDelivered, failedEarlier, failedNow,
                   raisedLast, mvars,
                   answer,
                   sink>>

(***************************************************************************)
(* process_chat                                                            *)
(***************************************************************************)
\* 1. chat = await get_chat_info(chat_link)
get_chat_info(outcome) ==
    /\ loopPc = "monitor" /\ pc = "resolve"
    /\ IF outcome = "ok"
       THEN /\ chat' = valid_chats[ci]
            /\ pc' = "fetch"
            /\ UNCHANGED runResult
       ELSE /\ pc' = "done"
            /\ runResult' = Raised(Propagated(outcome))
            /\ UNCHANGED chat
    /\ raised_in' = IF outcome = "ok" THEN raised_in
                    ELSE [error |-> outcome, step |-> pc]
    /\ UNCHANGED <<messages, filtered_questions, qi, suitable_questions, si,
                   sent_count, chat_topic, svars, lvars, mvars, fetched>>
    /\ UNCHANGED HistoryOfSends
    /\ UNCHANGED stream

\* 2. the async for over get_recent_messages raises
fetch_fails(error) ==
    /\ loopPc = "monitor" /\ pc = "fetch"
    /\ pc' = "done"
    /\ runResult' = Raised(Propagated(error))
    /\ raised_in' = [error |-> error, step |-> pc]
    /\ fetched' = TRUE
    /\ UNCHANGED <<chat, messages, filtered_questions, qi, suitable_questions, si,
                   sent_count, chat_topic, svars, lvars, mvars>>
    /\ UNCHANGED HistoryOfSends
    /\ UNCHANGED stream

\* an exception no step of process_chat expects is raised inside the try block
\* after the fetch (a key missing in metadata, a print that fails)
unexpected_error(error) ==
    /\ loopPc = "monitor" /\ pc \in {"topic", "gate", "send"}
    /\ pc' = "done"
    /\ runResult' = Raised(Propagated(error))
    /\ raised_in' = [error |-> error, step |-> pc]
    /\ UNCHANGED <<chat, messages, filtered_questions, qi, suitable_questions, si,
                   sent_count, chat_topic, svars, lvars, mvars, fetched>>
    /\ UNCHANGED HistoryOfSends
    /\ UNCHANGED stream

\* "" (message.text of a photo without caption; None is has_text = FALSE)
EmptyText == [QuestionText EXCEPT !.blank = TRUE, !.length = 0, !.padding = 0]

\* self._messages_limit
messages_limit == MaxMsgId

\* what iter_messages(chat.link, limit=limit) can give: up to one message more
\* than the limit, newest first, pinned or not, with a text, "" or None
StreamMessages ==
    {[text |-> t[2], pinned |-> p, has_text |-> t[1]] :
        p \in BOOLEAN, t \in {<<FALSE, EmptyText>>, <<TRUE, EmptyText>>, <<TRUE, QuestionText>>}}
Streams ==
    UNION {{[i \in 1..n |-> [message_id |-> n + 1 - i, text |-> f[i].text,
                              pinned |-> f[i].pinned, has_text |-> f[i].has_text]] :
               f \in [1..n -> StreamMessages]} : n \in 0..(messages_limit + 1)}

\* message.pinned or not message.text
Skipped(message) == message.pinned \/ ~message.has_text \/ RawLength(message.text) = 0

\* a fetch that skips only the messages without text
get_recent_messages_with_pinned(raw, limit) ==
    LET taken == SubSeq(raw, 1, IF Len(raw) < limit THEN Len(raw) ELSE limit)
        yielded == SelectSeq(taken, LAMBDA m : m.has_text /\ RawLength(m.text) > 0)
    IN  [i \in DOMAIN yielded |->
            [message_id |-> yielded[i].message_id, text |-> yielded[i].text]]

\* the (text, metadata) pairs get_recent_messages yields; iter_messages stops
\* after `limit` messages
get_recent_messages(raw, limit) ==
    LET taken == SubSeq(raw, 1, IF Len(raw) < limit THEN Len(raw) ELSE limit)
        yielded == SelectSeq(taken, LAMBDA m : ~Skipped(m))
    IN  [i \in DOMAIN yielded |->
            [message_id |-> yielded[i].message_id, text |-> yielded[i].text]]

\* a batch as the stream it came from: nothing pinned, every message with text
AsStream(batch) ==
    [i \in DOMAIN batch |-> [message_id |-> batch[i].message_id, text |-> batch[i].text,
                             pinned |-> FALSE, has_text |-> TRUE]]

\* 2.-3. the batch is collected and filtered; "return 0" when nothing is left
CollectAndFilter(batch, raw) ==
    /\ loopPc = "monitor" /\ pc = "fetch"
    /\ messages' = batch
    /\ stream' = raw
    /\ IF batch = <<>>
       THEN /\ pc' = "done"
            /\ runResult' = Returned(0)
            /\ UNCHANGED filtered_questions
       ELSE /\ filtered_questions' = filter_questions(batch)
            /\ IF filter_questions(batch) = <<>>
               THEN pc' = "done" /\ runResult' = Returned(0)
               ELSE pc' = "topic" /\ UNCHANGED runResult
    /\ fetched' = TRUE
    /\ UNCHANGED <<chat, qi, suitable_questions, si, sent_count, chat_topic, svars, lvars,
                   mvars, raised_in>>
    /\ UNCHANGED HistoryOfSends

\* a process_chat without the two early returns
fetch_and_filter_no_return(batch) ==
    /\ loopPc = "monitor" /\ pc = "fetch"
    /\ messages' = batch
    /\ stream' = AsStream(batch)
    /\ filtered_questions' = filter_questions(batch)
    /\ pc' = "topic"
    /\ fetched' = TRUE
    /\ UNCHANGED <<chat, qi, suitable_questions, si, sent_count, chat_topic, runResult,
                   svars, lvars, mvars, raised_in>>
    /\ UNCHANGED HistoryOfSends

\* the fetch seen by what it yields
fetch_and_filter(batch) == CollectAndFilter(batch, AsStream(batch))

\* the fetch through get_recent_messages
fetch_messages(raw) == CollectAndFilter(get_recent_messages(raw, messages_limit), raw)

\* a determine_chat_topic without its except branch: the error of the backend
\* leaves process_chat as a ConnectionError
determine_chat_topic_raises(response) ==
    /\ loopPc = "monitor" /\ pc = "topic"
    /\ IF BackendFailed(response)
       THEN pc' = "done" /\ runResult' = Raised("ConnectionError")
       ELSE pc' = "gate" /\ UNCHANGED runResult
    /\ chat_topic' = TopicOf(response)
    /\ topicFailed' = BackendFailed(response)
    /\ topic_call' = TopicCall(topic_call, all_message_texts(messages))
    /\ UNCHANGED <<chat, messages, filtered_questions, qi, suitable_questions, si,
                   sent_count, svars, lvars, rows0, passed, sends,
                   watchDelivered, failedEarlier, failedNow, texts_sent, summary,
                   raisedLast, gateFailed, gate_topic, called, gated, mvars, gate_calls,
                   raised_in,
                   fetched,
                   runs,
                   answer,
                   stream,
                   sink>>

\* a process_chat that asks for the topic of the filtered questions only
determine_chat_topic_of_candidates(response) ==
    /\ loopPc = "monitor" /\ pc = "topic"
    /\ pc' = "gate"
    /\ chat_topic' = TopicOf(response)
    /\ topicFailed' = BackendFailed(response)
    /\ topic_call' = TopicCall(topic_call, all_message_texts(filtered_questions))
    /\ UNCHANGED <<chat, messages, filtered_questions, qi, suitable_questions, si,
                   sent_count, runResult, svars, lvars, rows0, passed, sends,
                   watchDelivered, failedEarlier, failedNow, texts_sent, summary,
                   raisedLast, gateFailed, gate_topic, called, gated, mvars,
                   gate_calls,
                   raised_in,
                   fetched,
                   runs,
                   answer,
                   stream,
                   sink>>

\* 4. chat_topic = await determine_chat_topic(all_message_texts)
determine_chat_topic(response) ==
    /\ loopPc = "monitor" /\ pc = "topic"
    /\ pc' = "gate"
    /\ chat_topic' = TopicOf(response)
    /\ topicFailed' = BackendFailed(response)
    /\ topic_call' = TopicCall(topic_call, all_message_texts(messages))
    /\ UNCHANGED <<chat, messages, filtered_questions, qi, suitable_questions, si,
                   sent_count, runResult, svars, lvars, rows0, passed, sends,
                   watchDelivered, failedEarlier, failedNow, texts_sent, summary,
                   raisedLast, gateFailed, gate_topic, called, gated, mvars, gate_calls,
                   raised_in,
                   fetched,
                   runs,
                   answer,
                   stream,
                   sink>>

\* 5. one pass of the loop over filtered_questions; r1, r2, r3 are what the
\* backend gives to the three checks (the second is asked only after a yes of
\* the first, the third only after a yes of the second)
check_question(r1, r2, r3) ==
    LET is_on_topic == is_question_on_topic(r1)
        can_answer == can_answer_confidently(r2)
        is_order == is_potential_order(r3)
        failed == \/ BackendFailed(r1)
                  \/ is_on_topic /\ BackendFailed(r2)
                  \/ is_on_topic /\ can_answer /\ BackendFailed(r3)
    IN  /\ loopPc = "monitor" /\ pc = "gate"
        /\ qi <= Len(filtered_questions)
        /\ suitable_questions' =
              IF IsSuitable(is_on_topic, can_answer, is_order)
              THEN Append(suitable_questions, filtered_questions[qi])
              ELSE suitable_questions
        /\ passed' = IF is_on_topic /\ can_answer /\ is_order
                     THEN passed \cup {filtered_questions[qi].message_id}
                     ELSE passed
        /\ gateFailed' = IF failed
                         THEN gateFailed \cup {filtered_questions[qi].message_id}
                         ELSE gateFailed
        /\ gate_topic' = chat_topic
        /\ gated' = Append(gated, filtered_questions[qi].message_id)
        /\ gate_calls' = GateCalls(is_on_topic, can_answer, is_order)
        /\ qi' = qi + 1
        /\ pc' = IF qi < Len(filtered_questions) THEN "gate" ELSE "send"
        /\ UNCHANGED <<chat, messages, filtered_questions, si, sent_count,
                       chat_topic, runResult, svars, lvars, rows0, sends,
                       watchDelivered, failedEarlier, failedNow, texts_sent,
                       summary, raisedLast, topicFailed, called, mvars,
                   topic_call,
                   raised_in,
                   fetched,
                   runs,
                   answer,
                   stream,
                   sink>>

\* sent_count after "if success: sent_count += 1"
CountSent(count, success) == IF success THEN count + 1 ELSE count

\* 6. one pass of the loop over suitable_questions: the Question is built and
\* handed to send_question, sent_count is updated, sleep(0.5); the pass leaves
\* the table as `table` and continues the loop at `next`
SendPass(success, table, next) ==
    /\ loopPc = "monitor" /\ pc = "send"
    /\ si <= Len(suitable_questions)
    /\ LET message_id == suitable_questions[si].message_id
           key == <<chat, message_id>>
       IN  /\ sends' = Append(sends,
                  [message_id |-> message_id, success |-> success,
                   recorded |-> CountMatching(rows, PyInt(chat), message_id) > 0,
                   retry |-> key = watch /\ failedEarlier])
           /\ watchDelivered' =
                  IF key = watch /\ success /\ watchDelivered < 2
                  THEN watchDelivered + 1 ELSE watchDelivered
           /\ failedNow' = (failedNow \/ (key = watch /\ ~success))
    /\ sent_count' = CountSent(sent_count, success)
    /\ si' = next
    /\ rows' = table
    /\ UNCHANGED <<pc, chat, messages, filtered_questions, qi, suitable_questions,
                   chat_topic, runResult, now, lastCall, marked, lvars, rows0,
                   passed, failedEarlier, texts_sent, summary, raisedLast,
                   topicFailed, gateFailed, gate_topic, called, gated, mvars, gate_calls,
                   topic_call,
                   raised_in,
                   fetched,
                   runs,
                   answer,
                   stream,
                   sink>>

\* a pass that writes a row for the question whatever send_question returned
send_question_commit_always(success) ==
    SendPass(success,
             rows (+) SetToBag({[chat_id |-> Str(PyInt(chat)),
                                 message_id |-> suitable_questions[si].message_id,
                                 sent_at |-> now, question_hash |-> "h1"]}),
             si + 1)

\* a loop that leaves out a question whose send failed before
send_question_skip_failed(success) ==
    IF /\ loopPc = "monitor" /\ pc = "send" /\ si <= Len(suitable_questions)
       /\ <<chat, suitable_questions[si].message_id>> = watch /\ failedEarlier
    THEN /\ si' = si + 1
         /\ UNCHANGED <<pc, chat, messages, filtered_questions, qi,
                        suitable_questions, sent_count, chat_topic, runResult, svars, lvars,
                        hvars, mvars>>
    ELSE SendPass(success, rows, si + 1)

\* a loop that ends at the first failed send
send_question_break(success) ==
    SendPass(success, rows, IF success THEN si + 1 ELSE Len(suitable_questions) + 1)

\* 6. one pass of the loop over suitable_questions (process_chat never touches
\* the sent_questions table)
send_question(success) == SendPass(success, rows, si + 1)

\* return sent_count
return_sent_count ==
    /\ loopPc = "monitor" /\ pc = "send"
    /\ si > Len(suitable_questions)
    /\ pc' = "done"
    /\ runResult' = Returned(sent_count)
    /\ UNCHANGED <<chat, messages, filtered_questions, qi, suitable_questions, si,
                   sent_count, chat_topic, svars, lvars, hvars, mvars>>

(***************************************************************************)
(* monitor_chats and the loop of start_continuous_monitoring               *)
(***************************************************************************)
\* the end of one pass of the for loop of monitor_chats. `aborts`: the
\* exception of process_chat leaves monitor_chats and the iteration ends in the
\* except branch of the while loop, without statistics
RecordResult(aborts) ==
    /\ loopPc = "monitor" /\ pc = "done"
    /\ IF aborts
       THEN /\ loopPc' = "sleep"
            /\ pc' = "idle"
            /\ NoRun
            /\ runs' = [runs EXCEPT !.ended = @ + 1]
            /\ UNCHANGED <<vi, valid_chats, iteration, ci, results, called>>
       ELSE /\ LET chat_link == valid_chats[ci]
                   count == IF runResult.kind = "return" THEN runResult.value
                            ELSE 0
               IN  results' = [c \in DOMAIN results \cup {chat_link} |->
                                  IF c = chat_link THEN count ELSE results[c]]
            /\ IF ci < Len(valid_chats)
               THEN /\ ci' = ci + 1
                    /\ called' = Append(called, valid_chats[ci + 1])
                    /\ runs' = [started |-> runs.started + 1, ended |-> runs.ended + 1]
                    /\ BeginRun
                    /\ UNCHANGED <<loopPc, vi, valid_chats, iteration>>
               ELSE /\ loopPc' = "stats"
                    /\ pc' = "idle"
                    /\ NoRun
                    /\ runs' = [runs EXCEPT !.ended = @ + 1]
                    /\ UNCHANGED <<vi, valid_chats, iteration, ci, called>>
    /\ raisedLast' = IF valid_chats[ci] = watch[1]
                     THEN runResult.kind = "raise"
                     ELSE raisedLast
    /\ UNCHANGED <<svars, watchDelivered, failedEarlier, failedNow, texts_sent,
                   summary, mvars,
                   answer,
                   sink>>

\* a monitor_chats without the except branches
monitor_next_abort == RecordResult(runResult.kind = "raise")

\* a monitor_chats that creates the task of the next chat without awaiting the
\* run in progress
monitor_next_no_await ==
    \/ RecordResult(FALSE)
    \/ /\ loopPc = "monitor" /\ pc = "resolve"
       /\ ci < Len(valid_chats)
       /\ ci' = ci + 1
       /\ called' = Append(called, valid_chats[ci + 1])
       /\ runs' = [runs EXCEPT !.started = @ + 1]
       /\ UNCHANGED <<loopPc, vi, valid_chats, iteration, results, svars, rvars, mvars,
                      rows0, passed, sends, watchDelivered, failedEarlier, failedNow,
                      texts_sent, summary, raisedLast, topicFailed, gateFailed,
                      gate_topic, gated, gate_calls, topic_call, raised_in, fetched,
                   answer,
                   stream,
                   sink>>

\* results[chat_link] = questions_count, or 0 in the except branches; sleep(1);
\* then the next chat, or monitor_chats returns
monitor_next == RecordResult(FALSE)

\* a loop whose send of the statistics ends it when the send fails
send_stats_raises(success) ==
    /\ loopPc = "stats"
    /\ loopPc' = IF success THEN "sleep" ELSE "raised"
    /\ texts_sent' = texts_sent + 1
    /\ summary' = [iteration |-> iteration, total_questions |-> SumValues(results)]
    /\ UNCHANGED <<vi, valid_chats, iteration, ci, results, svars, rvars, rows0,
                   passed, sends, watchDelivered, failedEarlier, failedNow,
                   raisedLast, topicFailed, gateFailed, gate_topic, called, gated, mvars, gate_calls,
                   topic_call,
                   raised_in,
                   fetched,
                   runs,
                   answer,
                   stream,
                   sink>>

\* total_questions = sum(results.values()); await send_text(stats_message),
\* whose result is not looked at
send_stats(success) ==
    /\ loopPc = "stats"
    /\ loopPc' = "sleep"
    /\ texts_sent' = texts_sent + 1
    /\ summary' = [iteration |-> iteration, total_questions |-> SumValues(results)]
    /\ UNCHANGED <<vi, valid_chats, iteration, ci, results, svars, rvars, rows0,
                   passed, sends, watchDelivered, failedEarlier, failedNow,
                   raisedLast, topicFailed, gateFailed, gate_topic, called, gated, mvars, gate_calls,
                   topic_call,
                   raised_in,
                   fetched,
                   runs,
                   answer,
                   stream,
                   sink>>

\* a loop that validates the chats again before every iteration
sleep_interval_revalidate ==
    /\ loopPc = "sleep"
    /\ iteration < MaxTicks
    /\ loopPc' = "validate"
    /\ vi' = 1
    /\ valid_chats' = <<>>
    /\ UNCHANGED <<iteration, ci, results, svars, rvars, hvars, mvars>>

\* await asyncio.sleep(interval_seconds), then the next iteration
sleep_interval ==
    /\ loopPc = "sleep"
    /\ iteration < MaxTicks
    /\ BeginIteration
    /\ failedEarlier' = (failedEarlier \/ failedNow)
    /\ failedNow' = FALSE
    /\ UNCHANGED <<vi, valid_chats, svars, watchDelivered, texts_sent, raisedLast,
                   mvars,
                   answer,
                   sink>>

(***************************************************************************)
(* config/settings.py: the environment is a function from variable names   *)
(* to what os.getenv gives for them.                                       *)
(***************************************************************************)
Missing == [n |-> 0, kind |-> "missing"]         \* os.getenv gives None
Blank == [n |-> 0, kind |-> "blank"]             \* "   "
Word == [n |-> 0, kind |-> "word"]               \* a text that is no number
Commas == [n |-> 0, kind |-> "commas"]           \* " , ,"
Number(n) == [n |-> n, kind |-> "number"]        \* the decimal text of n

RequiredVars ==
    {"TELEGRAM_API_ID", "TELEGRAM_API_HASH", "TELEGRAM_PHONE", "TELEGRAM_BOT_TOKEN",
     "TELEGRAM_BOT_CHAT_ID", "MONITORED_CHATS", "OPENROUTER_API_KEY"}
OptionalVars ==
    {"OPENROUTER_MODEL", "MONITORING_INTERVAL", "MESSAGES_LIMIT", "LOG_LEVEL",
     "LOG_FORMAT"}
EnvVars == RequiredVars \cup OptionalVars

\* value is None or value.strip() == ""
Unset(value) == value.kind \in {"missing", "blank"}

\* get_required_env raises ConfigurationError
RequiredMissing(e, key) == Unset(e[key])

\* get_optional_env(key, default)
get_optional_env(e, key, default) == IF Unset(e[key]) THEN default ELSE e[key]

\* parse_chat_list raises: no part between the commas is left after strip()
EmptyChatList(value) == value.kind = "commas"

\* int(value) raises ValueError
NotAnInt(value) == value.kind # "number"

\* a parser that lets zero pass
parse_positive_int_allows_zero(value) ==
    IF NotAnInt(value) THEN FALSE
    ELSE IF value.n < 0 THEN FALSE
    ELSE TRUE

\* _parse_positive_int returns (it raises ConfigurationError otherwise)
parse_positive_int(value) ==
    IF NotAnInt(value) THEN FALSE
    ELSE IF value.n <= 0 THEN FALSE
    ELSE TRUE

\* the name of a log level or of a log format
Choice == [n |-> 0, kind |-> "choice"]

\* Settings.__init__ raises ConfigurationError
SettingsError(e) ==
    \/ RequiredMissing(e, "TELEGRAM_API_ID")
    \/ NotAnInt(e["TELEGRAM_API_ID"]) \/ e["TELEGRAM_API_ID"].n <= 0
    \/ RequiredMissing(e, "TELEGRAM_API_HASH")
    \/ RequiredMissing(e, "TELEGRAM_PHONE")
    \/ RequiredMissing(e, "TELEGRAM_BOT_TOKEN")
    \/ RequiredMissing(e, "TELEGRAM_BOT_CHAT_ID")
    \/ NotAnInt(e["TELEGRAM_BOT_CHAT_ID"])
    \/ RequiredMissing(e, "MONITORED_CHATS")
    \/ EmptyChatList(e["MONITORED_CHATS"])
    \/ RequiredMissing(e, "OPENROUTER_API_KEY")
    \/ ~parse_positive_int(get_optional_env(e, "MONITORING_INTERVAL", Number(3600)))
    \/ ~parse_positive_int(get_optional_env(e, "MESSAGES_LIMIT", Number(100)))
    \/ get_optional_env(e, "LOG_LEVEL", Choice) # Choice
    \/ get_optional_env(e, "LOG_FORMAT", Choice) # Choice

ValidEnv ==
    [k \in EnvVars |->
        IF k = "TELEGRAM_API_ID" THEN Number(1)
        ELSE IF k = "TELEGRAM_BOT_CHAT_ID" THEN Number(-1)
        ELSE IF k \in {"MONITORING_INTERVAL", "MESSAGES_LIMIT"} THEN Number(1)
        ELSE IF k \in {"LOG_LEVEL", "LOG_FORMAT"} THEN Choice
        ELSE Word]

\* the valid environment with one variable changed
EnvValues == {Missing, Blank, Word, Commas, Number(0), Number(-1)}
Environments == {[ValidEnv EXCEPT ![k] = v] : k \in EnvVars, v \in EnvValues}

NotCancelled == [loopPc |-> "none", pc |-> "none"]

(***************************************************************************)
(* main                                                                    *)
(***************************************************************************)
\* setup_logging_from_settings() / get_settings(): the first get_settings()
\* call builds Settings(); ConfigurationError is caught by main, "return 1"
load_settings ==
    /\ loopPc = "startup"
    /\ IF SettingsError(env)
       THEN loopPc' = "exited" /\ exit_code' = 1
       ELSE loopPc' = "create" /\ UNCHANGED exit_code
    /\ UNCHANGED <<vi, valid_chats, iteration, ci, results, svars, rvars, hvars,
                   env, connected, cancelled_at, telethon, components, cleanup,
                   client_log>>

NoComponents == [repository |-> FALSE, bot_adapter |-> FALSE]
AllComponents == [repository |-> TRUE, bot_adapter |-> TRUE]
NoCleanup == [disconnects |-> 0, closes |-> 0, disconnect_failed |-> FALSE]

\* 3. the three factories: the bot adapter or the service may fail to build
\* (Bot(token=...) checks the token, AIAnalyzerService builds its client);
\* the exception is caught by main, "return 1"
CreateOutcomes == {"ok", "bot_adapter_fails", "monitor_service_fails"}

create_components(outcome) ==
    /\ loopPc = "create"
    /\ components' = [repository |-> TRUE, bot_adapter |-> outcome # "bot_adapter_fails"]
    /\ IF outcome = "ok"
       THEN loopPc' = "connect" /\ UNCHANGED exit_code
       ELSE loopPc' = "finally" /\ exit_code' = 1
    /\ UNCHANGED <<vi, valid_chats, iteration, ci, results, svars, rvars, hvars,
                   env, connected, cancelled_at, telethon, cleanup, client_log>>

(***************************************************************************)
(* TelegramClientAdapter: connect and disconnect as changes of the two     *)
(* fields _is_connected and _client.                                       *)
(***************************************************************************)
\* what happens inside connect: start() and get_me() return, start() raises,
\* or start() returns and get_me() raises (or gives None)
ConnectOutcomes == {"ok", "start_fails", "get_me_fails"}

\* if self._is_connected and self._client: return
AlreadyConnected == connected /\ telethon

\* connect raises ConnectionError
ConnectRaises(outcome) == ~AlreadyConnected /\ outcome # "ok"

\* self._client = TelegramClient(...); await self._client.start(...);
\* self._is_connected = True; me = await self._client.get_me()
ClientConnect(outcome) ==
    IF AlreadyConnected THEN UNCHANGED <<connected, telethon>>
    ELSE /\ telethon' = TRUE
         /\ connected' = IF outcome = "start_fails" THEN connected ELSE TRUE

\* if not self._is_connected or not self._client: return
AlreadyDisconnected == ~connected \/ ~telethon

\* await self._client.disconnect(); both branches clear the two fields
ClientDisconnect ==
    IF AlreadyDisconnected THEN UNCHANGED <<connected, telethon>>
    ELSE connected' = FALSE /\ telethon' = FALSE

\* 4. await repository.connect(); an exception is caught by main, "return 1";
\* then monitor_task is created
connect(outcome) ==
    /\ loopPc = "connect"
    /\ ClientConnect(outcome)
    /\ IF ConnectRaises(outcome)
       THEN loopPc' = "finally" /\ exit_code' = 1
       ELSE loopPc' = "validate" /\ UNCHANGED exit_code
    /\ UNCHANGED <<vi, valid_chats, iteration, ci, results, svars, rvars, hvars,
                   env, cancelled_at, components, cleanup, client_log>>

\* 6. the signal handler sets shutdown_event; main cancels monitor_task, which
\* gets CancelledError at the await it is suspended in (a task that has ended
\* is left as it is), "return 0"
shutdown ==
    /\ loopPc \in {"validate", "start_message", "monitor", "stats", "sleep", "stopped"}
    /\ loopPc' = "finally"
    /\ exit_code' = 0
    /\ cancelled_at' = [loopPc |-> loopPc, pc |-> pc]
    /\ UNCHANGED <<vi, valid_chats, iteration, ci, results, svars, rvars, hvars, env,
                   connected, telethon, components, cleanup, client_log>>

DisconnectOutcomes == {"ok", "fails"}

\* a finally block that gives up when the disconnect failed
finally_disconnect_gives_up(outcome) ==
    /\ loopPc = "finally"
    /\ loopPc' = IF components.repository /\ ~AlreadyDisconnected /\ outcome = "fails"
                 THEN "exited" ELSE "finally_close"
    /\ IF components.repository
       THEN /\ ClientDisconnect
            /\ cleanup' = [cleanup EXCEPT
                              !.disconnects = @ + 1,
                              !.disconnect_failed = ~AlreadyDisconnected /\ outcome = "fails"]
       ELSE UNCHANGED <<connected, telethon, cleanup>>
    /\ UNCHANGED <<vi, valid_chats, iteration, ci, results, svars, rvars, hvars, env,
                   exit_code, cancelled_at, components, client_log>>

\* finally: if repository: await repository.disconnect(); the outcome is that
\* of the client's own disconnect, asked for only when the adapter is connected
finally_disconnect(outcome) ==
    /\ loopPc = "finally"
    /\ loopPc' = "finally_close"
    /\ IF components.repository
       THEN /\ ClientDisconnect
            /\ cleanup' = [cleanup EXCEPT
                              !.disconnects = @ + 1,
                              !.disconnect_failed = ~AlreadyDisconnected /\ outcome = "fails"]
       ELSE UNCHANGED <<connected, telethon, cleanup>>
    /\ UNCHANGED <<vi, valid_chats, iteration, ci, results, svars, rvars, hvars, env,
                   exit_code, cancelled_at, components, client_log>>

\* finally: if bot_adapter: await bot_adapter.close(); main returns
finally_close ==
    /\ loopPc = "finally_close"
    /\ loopPc' = "exited"
    /\ cleanup' = IF components.bot_adapter
                  THEN [cleanup EXCEPT !.closes = @ + 1]
                  ELSE cleanup
    /\ UNCHANGED <<vi, valid_chats, iteration, ci, results, svars, rvars, hvars, env,
                   exit_code, connected, cancelled_at, telethon, components, client_log>>

(***************************************************************************)
(* Initial states and specifications                                       *)
(***************************************************************************)
Keys == ChatLinks \X MsgIds

\* the locals of the service and the history before anything was called
InitState ==
    /\ vi = 1
    /\ valid_chats = <<>>
    /\ iteration = 0
    /\ ci = 1
    /\ results = EmptyResults
    /\ pc = "idle"
    /\ chat = 0
    /\ messages = <<>>
    /\ filtered_questions = <<>>
    /\ qi = 1
    /\ suitable_questions = <<>>
    /\ si = 1
    /\ sent_count = 0
    /\ chat_topic = <<>>
    /\ topicFailed = FALSE
    /\ gateFailed = {}
    /\ gate_topic = <<>>
    /\ runResult = NoResult
    /\ passed = {}
    /\ sends = <<>>
    /\ watchDelivered = 0
    /\ failedEarlier = FALSE
    /\ failedNow = FALSE
    /\ texts_sent = 0
    /\ summary = NoSummary
    /\ raisedLast = FALSE
    /\ called = <<>>
    /\ gated = <<>>
    /\ gate_calls = <<>>
    /\ runs = [started |-> 0, ended |-> 0]
    /\ answer = NoAnswer
    /\ sink = NoSend
    /\ stream = <<>>
    /\ raised_in = NotRaised
    /\ fetched = FALSE
    /\ topic_call = NoTopicCall

\* main has loaded the settings and connected the client
Started ==
    /\ env = ValidEnv
    /\ exit_code = -1
    /\ connected = TRUE
    /\ cancelled_at = NotCancelled
    /\ telethon = TRUE
    /\ components = AllComponents
    /\ cleanup = NoCleanup
    /\ client_log = <<>>

\* the service before start_continuous_monitoring is called
InitService == loopPc = "validate" /\ InitState /\ Started

\* the row an earlier process left in the database file for a key
PersistedRow(key) ==
    [chat_id |-> Str(PyInt(key[1])), message_id |-> key[2],
     sent_at |-> 0, question_hash |-> "h1"]

\* SentQuestionRepository.__init__ on a new database file
InitStore ==
    /\ rows = EmptyBag
    /\ rows0 = EmptyBag
    /\ now = 0
    /\ lastCall = NoCall
    /\ marked = {}

\* the database file is new, or holds the row of the followed message
InitPersisted ==
    /\ rows \in {EmptyBag, SetToBag({PersistedRow(watch)})}
    /\ rows0 = rows
    /\ now = 0
    /\ lastCall = NoCall
    /\ marked = {}

Init == InitService /\ InitPersisted

\* the backend answers the checks of one candidate alike (which of the checks
\* says no leaves process_chat in the same state)
UniformReplies == {<<r, r, r>> : r \in AnsweredReplies}

Next ==
    \/ \E o \in ResolveOutcomes : validate_chat(o)
    \/ \E ok \in BOOLEAN : send_start_message(ok)
    \/ \E o \in ResolveOutcomes : get_chat_info(o)
    \/ \E e \in FetchErrors : fetch_fails(e)
    \/ \E b \in Batches : fetch_and_filter(b)
    \/ determine_chat_topic(TopicReply)
    \/ \E r \in UniformReplies : check_question(r[1], r[2], r[3])
    \/ \E ok \in BOOLEAN : send_question(ok)
    \/ return_sent_count
    \/ monitor_next
    \/ \E ok \in BOOLEAN : send_stats(ok)
    \/ sleep_interval

Spec == Init /\ [][Next]_vars

(***************************************************************************)
(* The repository under a client that calls its operations in any order.   *)
(***************************************************************************)
CallIsAlreadySent ==
    \E c \in ClientChatIds, m \in ClientMsgIds, e \in BOOLEAN : is_already_sent(c, m, e)

\* the client builds SentQuestion(..., sent_at=datetime.now())
CallMarkAsSent ==
    \E c \in ClientChatIds, m \in ClientMsgIds, h \in Hashes, e \in BOOLEAN :
        mark_as_sent(c, m, h, now, e)

CallCleanup ==
    \E d \in 0..MaxTime, e \in BOOLEAN : cleanup_old_records(d, e)

CallStatistics ==
    \E e \in BOOLEAN : get_statistics(e)

NextStore ==
    \/ CallIsAlreadySent
    \/ CallMarkAsSent
    \/ CallCleanup
    \/ CallStatistics
    \/ AdvanceClock

InitClient == InitService /\ InitStore

SpecSink == InitClient /\ [][NextSink]_vars

(***************************************************************************)
(* The monitoring loop over chats that hold at most one message, a         *)
(* question; every awaited call returns or raises, the sleeps end.         *)
(***************************************************************************)
LoopBatches == {b \in Batches : Len(b) <= 1 /\ \A i \in DOMAIN b : b[i].text = QuestionText}

NextLoop ==
    \/ \E o \in ResolveOutcomes : validate_chat(o)
    \/ \E ok \in BOOLEAN : send_start_message(ok)
    \/ \E o \in ResolveOutcomes : get_chat_info(o)
    \/ \E e \in FetchErrors : fetch_fails(e)
    \/ \E b \in LoopBatches : fetch_and_filter(b)
    \/ determine_chat_topic(TopicReply)
    \/ \E r \in AskedReplies(AnsweredReplies) : check_question(r[1], r[2], r[3])
    \/ \E ok \in BOOLEAN : send_question(ok)
    \/ return_sent_count
    \/ monitor_next
    \/ \E ok \in BOOLEAN : send_stats(ok)
    \/ sleep_interval

SpecLoop == InitClient /\ [][NextLoop]_vars

FairLoop == SpecLoop /\ WF_vars(NextLoop)

SpecStore == InitClient /\ [][NextStore]_vars

(***************************************************************************)
(* The AI backend may fail in every call; the chats resolve, the fetches   *)
(* and the sends succeed and every fetched message is a question.          *)
(***************************************************************************)
GateBatches == {b \in Batches : \A i \in DOMAIN b : b[i].text = QuestionText}

NextGate ==
    \/ validate_chat("ok")
    \/ send_start_message(TRUE)
    \/ get_chat_info("ok")
    \/ \E b \in GateBatches : fetch_and_filter(b)
    \/ \E r \in TopicResponses : determine_chat_topic(r)
    \/ \E r \in AskedReplies(AIResponses) : check_question(r[1], r[2], r[3])
    \/ send_question(TRUE)
    \/ return_sent_count
    \/ monitor_next
    \/ send_stats(TRUE)
    \/ sleep_interval

SpecGate == InitClient /\ [][NextGate]_vars

(***************************************************************************)
(* The topic call may fail and the fetched batches hold questions and      *)
(* other messages; the chats resolve, the fetches and the sends succeed.   *)
(***************************************************************************)
NextTopic ==
    \/ validate_chat("ok")
    \/ send_start_message(TRUE)
    \/ get_chat_info("ok")
    \/ \E b \in Batches : fetch_and_filter(b)
    \/ \E r \in TopicResponses : determine_chat_topic(r)
    \/ \E r \in UniformReplies : check_question(r[1], r[2], r[3])
    \/ send_question(TRUE)
    \/ return_sent_count
    \/ monitor_next
    \/ send_stats(TRUE)
    \/ sleep_interval

SpecTopic == InitClient /\ [][NextTopic]_vars

(***************************************************************************)
(* The loop over chats of at most one message under a repository and a run *)
(* that may raise any exception.                                           *)
(***************************************************************************)
RepositoryErrors == Reraised \cup {"RuntimeError"}
UnexpectedErrors == {"KeyError", "ValueError"}

NextErrors ==
    \/ \E o \in ResolveOutcomes : validate_chat(o)
    \/ send_start_message(TRUE)
    \/ \E o \in {"ok"} \cup RepositoryErrors : get_chat_info(o)
    \/ \E e \in RepositoryErrors : fetch_fails(e)
    \/ \E b \in LoopBatches : fetch_and_filter(b)
    \/ determine_chat_topic(TopicReply)
    \/ \E r \in UniformReplies : check_question(r[1], r[2], r[3])
    \/ \E ok \in BOOLEAN : send_question(ok)
    \/ \E e \in UnexpectedErrors : unexpected_error(e)
    \/ return_sent_count
    \/ monitor_next
    \/ send_stats(TRUE)
    \/ sleep_interval

SpecErrors == InitClient /\ [][NextErrors]_vars

(***************************************************************************)
(* The process from the start of main to its return: any environment, a    *)
(* connect that may fail, the loop over chats of at most one message, and  *)
(* a shutdown signal at any moment.                                        *)
(***************************************************************************)
InitMain ==
    /\ loopPc = "startup"
    /\ InitState
    /\ InitStore
    /\ env \in Environments
    /\ exit_code = -1
    /\ connected = FALSE
    /\ cancelled_at = NotCancelled
    /\ telethon = FALSE
    /\ components = NoComponents
    /\ cleanup = NoCleanup
    /\ client_log = <<>>

NextMain ==
    \/ load_settings
    \/ create_components("ok")
    \/ \E o \in ConnectOutcomes : connect(o)
    \/ shutdown
    \/ finally_disconnect("ok")
    \/ finally_close
    \/ \E o \in ResolveOutcomes : validate_chat(o)
    \/ \E ok \in BOOLEAN : send_start_message(ok)
    \/ \E o \in ResolveOutcomes : get_chat_info(o)
    \/ \E e \in FetchErrors : fetch_fails(e)
    \/ \E b \in LoopBatches : fetch_and_filter(b)
    \/ determine_chat_topic(TopicReply)
    \/ \E r \in AskedReplies(AnsweredReplies) : check_question(r[1], r[2], r[3])
    \/ \E ok \in BOOLEAN : send_question(ok)
    \/ return_sent_count
    \/ monitor_next
    \/ \E ok \in BOOLEAN : send_stats(ok)
    \/ sleep_interval

SpecMain == InitMain /\ [][NextMain]_vars

(***************************************************************************)
(* The filter under a caller that hands it any batch of texts, once.       *)
(***************************************************************************)
\* the sample question with another length and whitespace around it
WithLength(text, n, p) == [text EXCEPT !.length = n, !.padding = p]

LengthTexts == {WithLength(QuestionText, n, p) : n \in {19, 20, 700, 701}, p \in {0, 10}}

\* "   "
BlankText == [QuestionText EXCEPT !.blank = TRUE, !.length = 0, !.padding = 3]

\* the sample question changed so that one more check of is_real_question matches
RuleTexts ==
    {[QuestionText EXCEPT !.links = TRUE],
     [QuestionText EXCEPT !.newlines = 4],
     [QuestionText EXCEPT !.useless = TRUE],
     [QuestionText EXCEPT !.self_reflection = TRUE],
     [QuestionText EXCEPT !.rhetorical_pattern = TRUE],
     [QuestionText EXCEPT !.question_pattern = FALSE],
     [QuestionText EXCEPT !.exclusion = TRUE],
     [QuestionText EXCEPT !.about_self = TRUE],
     [QuestionText EXCEPT !.length = 701, !.question_pattern = FALSE]}

FilterTexts == SampleTexts \cup LengthTexts \cup RuleTexts \cup {BlankText}

FilterBatches ==
    {b \in UNION {[1..n -> [message_id : MsgIds, text : FilterTexts]] : n \in 0..MaxMsgId} :
        \A i, j \in DOMAIN b : i # j => b[i].message_id # b[j].message_id}

\* the caller builds the list of (text, metadata)
PassMessages ==
    /\ loopPc = "validate" /\ vi = 1 /\ pc = "idle"
    /\ pc' = "filter"
    /\ \E batch \in FilterBatches : messages' = batch
    /\ filtered_questions' = <<>>
    /\ UNCHANGED <<chat, qi, suitable_questions, si, sent_count, chat_topic,
                   runResult, svars, lvars, hvars, mvars>>

\* questions = filter_questions(messages)
CallFilter ==
    /\ pc = "filter"
    /\ pc' = "filtered"
    /\ filtered_questions' = filter_questions(messages)
    /\ UNCHANGED <<chat, messages, qi, suitable_questions, si, sent_count,
                   chat_topic, runResult, svars, lvars, hvars, mvars>>

(***************************************************************************)
(* The three yes/no checks on the replies the backend can give.            *)
(***************************************************************************)
\* response = await self._client.chat.completions.create(...)
create_completion ==
    /\ loopPc = "validate" /\ vi = 1 /\ pc = "idle"
    /\ pc' = "ask"
    /\ \E response \in ClassifierReplies : answer' = Answer("none", response, FALSE)
    /\ UNCHANGED <<chat, messages, filtered_questions, qi, suitable_questions, si,
                   sent_count, chat_topic, runResult, svars, lvars, mvars,
                   rows0, passed, sends, watchDelivered, failedEarlier, failedNow,
                   texts_sent, summary, raisedLast, topicFailed, gateFailed,
                   gate_topic, called, gated, gate_calls, topic_call, raised_in,
                   fetched, runs,
                   stream,
                   sink>>

\* what one of the three methods makes of the response
Asked(check, result) ==
    /\ pc = "ask"
    /\ pc' = "asked"
    /\ answer' = Answer(check, answer.response, result)
    /\ UNCHANGED <<chat, messages, filtered_questions, qi, suitable_questions, si,
                   sent_count, chat_topic, runResult, svars, lvars, mvars,
                   rows0, passed, sends, watchDelivered, failedEarlier, failedNow,
                   texts_sent, summary, raisedLast, topicFailed, gateFailed,
                   gate_topic, called, gated, gate_calls, topic_call, raised_in,
                   fetched, runs,
                   stream,
                   sink>>

ask_on_topic == Asked("is_question_on_topic", is_question_on_topic(answer.response))
ask_confident == Asked("can_answer_confidently", can_answer_confidently(answer.response))
ask_order == Asked("is_potential_order", is_potential_order(answer.response))

NextReply ==
    \/ create_completion
    \/ ask_on_topic
    \/ ask_confident
    \/ ask_order

SpecReply == InitClient /\ [][NextReply]_vars

(***************************************************************************)
(* main from its first line to its return: components that fail to build,  *)
(* a connect and a disconnect that fail, chats that do not resolve, and a   *)
(* shutdown signal at any moment or never.                                 *)
(***************************************************************************)
MainSteps ==
    \/ load_settings
    \/ \E o \in CreateOutcomes : create_components(o)
    \/ \E o \in ConnectOutcomes : connect(o)
    \/ \E o \in ResolveOutcomes : validate_chat(o)
    \/ send_start_message(TRUE)
    \/ get_chat_info("ok")
    \/ \E b \in LoopBatches : fetch_and_filter(b)
    \/ determine_chat_topic(TopicReply)
    \/ \E r \in UniformReplies : check_question(r[1], r[2], r[3])
    \/ send_question(TRUE)
    \/ return_sent_count
    \/ monitor_next
    \/ send_stats(TRUE)
    \/ sleep_interval
    \/ \E o \in DisconnectOutcomes : finally_disconnect(o)
    \/ finally_close

NextCleanup ==
    \/ MainSteps
    \/ shutdown

SpecCleanup == InitMain /\ [][NextCleanup]_vars

\* every step of the program is taken when it can be; a signal may never come
FairCleanup == SpecCleanup /\ WF_vars(MainSteps)

(***************************************************************************)
(* The client adapter under a caller that calls its methods in any order.  *)
(***************************************************************************)
ClientCall(op, result, noop) ==
    [op |-> op, result |-> result, noop |-> noop, was_connected |-> connected]

\* the rest of the state a call of the adapter leaves alone
ClientFrame ==
    UNCHANGED <<svars, lvars, rvars, hvars, env, exit_code, cancelled_at, components,
                cleanup>>

call_connect(outcome) ==
    /\ ClientConnect(outcome)
    /\ client_log' = Append(client_log,
          ClientCall("connect",
                     IF ConnectRaises(outcome) THEN "ConnectionError" ELSE "returned",
                     AlreadyConnected))
    /\ ClientFrame

call_disconnect(outcome) ==
    /\ ClientDisconnect
    /\ client_log' = Append(client_log,
          ClientCall("disconnect", "returned", AlreadyDisconnected))
    /\ ClientFrame

\* if not self._client or not self._is_connected: raise ConnectionError(...)
NotConnected == ~telethon \/ ~connected

\* get_chat_info, or the first step of the generator get_recent_messages:
\* `outcome` is what the Telethon call does when the adapter gets to it
call_read(op, outcome) ==
    /\ client_log' = Append(client_log,
          ClientCall(op,
                     IF NotConnected THEN "ConnectionError"
                     ELSE IF outcome = "ok" THEN "returned" ELSE outcome,
                     FALSE))
    /\ UNCHANGED <<connected, telethon>>
    /\ ClientFrame

CallClient ==
    /\ Len(client_log) < MaxCalls
    /\ \/ \E o \in ConnectOutcomes : call_connect(o)
       \/ \E o \in DisconnectOutcomes : call_disconnect(o)
       \/ \E o \in ResolveOutcomes : call_read("get_chat_info", o)
       \/ \E o \in {"ok"} \cup FetchErrors : call_read("get_recent_messages", o)

\* the adapter as create_telegram_repository builds it
InitAdapter ==
    /\ loopPc = "startup"
    /\ InitState
    /\ InitStore
    /\ env = ValidEnv
    /\ exit_code = -1
    /\ connected = FALSE
    /\ cancelled_at = NotCancelled
    /\ telethon = FALSE
    /\ components = [repository |-> TRUE, bot_adapter |-> FALSE]
    /\ cleanup = NoCleanup
    /\ client_log = <<>>

SpecClient == InitAdapter /\ [][CallClient]_vars

(***************************************************************************)
(* The filter on one text that only the rhetorical rule can reject.        *)
(***************************************************************************)
RhetoricTexts ==
    {[QuestionText EXCEPT !.length = n, !.question_mark = q,
                          !.rhetorical_pattern = p, !.interrogatives = w] :
        n \in {39, 40}, q \in BOOLEAN, p \in BOOLEAN, w \in SUBSET QuestionWords}

\* the caller hands over a list of one (text, metadata)
PassOneText ==
    /\ loopPc = "validate" /\ vi = 1 /\ pc = "idle"
    /\ pc' = "filter"
    /\ \E text \in RhetoricTexts : messages' = <<[message_id |-> 1, text |-> text]>>
    /\ filtered_questions' = <<>>
    /\ UNCHANGED <<chat, qi, suitable_questions, si, sent_count, chat_topic,
                   runResult, svars, lvars, hvars, mvars>>

NextRhetoric ==
    \/ PassOneText
    \/ CallFilter

SpecRhetoric == InitClient /\ [][NextRhetoric]_vars

(***************************************************************************)
(* The loop on what the Telegram client gives: pinned messages, messages   *)
(* without text, more messages than the limit.                             *)
(***************************************************************************)
FetchStream ==
    /\ loopPc = "monitor" /\ pc = "fetch"
    /\ \E raw \in Streams : fetch_messages(raw)

NextFetch ==
    \/ validate_chat("ok")
    \/ send_start_message(TRUE)
    \/ get_chat_info("ok")
    \/ FetchStream
    \/ determine_chat_topic(TopicReply)
    \/ \E r \in UniformReplies : check_question(r[1], r[2], r[3])
    \/ send_question(TRUE)
    \/ return_sent_count
    \/ monitor_next
    \/ send_stats(TRUE)
    \/ sleep_interval

SpecFetch == InitClient /\ [][NextFetch]_vars

NextFilter ==
    \/ PassMessages
    \/ CallFilter

SpecFilter == InitClient /\ [][NextFilter]_vars

(***************************************************************************)
(* Properties                                                              *)
(***************************************************************************)
SendIds == [i \in DOMAIN sends |-> sends[i].message_id]
Successes == {i \in DOMAIN sends : sends[i].success}
RunReturned == pc = "done" /\ runResult.kind = "return"
WatchedRows(table) == CountMatching(table, PyInt(watch[1]), watch[2])

\* C1: a question that passed the three AI checks and whose (chat id, message
\* id) has a row in sent_questions is never handed to send_question.
C1_RecordedIsNotSent == \A i \in DOMAIN sends : ~sends[i].recorded

\* C2: over the iterations of the loop, send_question returns True for the same
\* (chat id, message id) at most once.
C2_DeliveredAtMostOnce == watchDelivered <= 1

\* C3: process_chat adds a row to sent_questions only for a question of this run
\* for which send_question has returned True; a failed or missing send adds none.
C3_RowOnlyAfterSuccess ==
    [][\A r \in BagToSet(rows') :
          CopiesIn(r, rows') > CopiesIn(r, rows) =>
              \E i \in DOMAIN sends' :
                  /\ sends'[i].success
                  /\ r.chat_id = Str(PyInt(chat'))
                  /\ r.message_id = sends'[i].message_id]_vars

\* a send failed and the table holds no row for that question
C3_FailedSendLeftNoRow ==
    \E i \in DOMAIN sends :
        /\ ~sends[i].success
        /\ CountMatching(rows, PyInt(chat), sends[i].message_id) = 0

\* C4: a failed send adds no row for the question, and a run of a later
\* iteration that fetches the same message and gets three yes for it hands it
\* to send_question again.
C4_FailedSendIsRetried ==
    [][/\ (Len(sends') = Len(sends) + 1 /\ ~sends'[Len(sends')].success) =>
              CountMatching(rows', PyInt(chat'), sends'[Len(sends')].message_id)
                  = CountMatching(rows, PyInt(chat), sends'[Len(sends')].message_id)
       /\ (/\ pc' = "done" /\ runResult'.kind = "return"
           /\ chat' = watch[1] /\ failedEarlier' /\ watch[2] \in passed') =>
              \E i \in DOMAIN sends' : sends'[i].message_id = watch[2]]_vars

\* the followed message, whose send failed in an earlier iteration, is sent again
\* while the table still holds no row for it
C4_RetryAttempted ==
    /\ \E i \in DOMAIN sends : sends[i].retry
    /\ WatchedRows(rows) = 0

ShouldDeliver(m) == is_real_question(m.text) /\ m.message_id \in passed

\* C5: with an empty table at the start of the run and every send succeeding,
\* the run sends exactly the fetched messages that pass the filter and got three
\* yes, in fetch order, and the table then holds exactly one row for each.
C5_DeliversAndCommitsEach ==
    (RunReturned /\ rows0 = EmptyBag /\ Successes = DOMAIN sends) =>
        /\ SendIds = MessageIds(SelectSeq(messages, ShouldDeliver))
        /\ BagCardinality(rows) = Len(sends)
        /\ \A i \in DOMAIN sends :
               CountMatching(rows, PyInt(chat), sends[i].message_id) = 1

\* the sends of this run for which the table gained a row during the run
Committed ==
    {i \in Successes :
        CountMatching(rows, PyInt(chat), sends[i].message_id)
            > CountMatching(rows0, PyInt(chat), sends[i].message_id)}

\* C6: the value process_chat returns is the number of questions of the run
\* that were sent successfully and got a row in sent_questions.
C6_ReturnsDeliveredAndCommitted ==
    RunReturned => runResult.value = Cardinality(Committed)

\* C7: a run in which a send failed still returns normally, has handed every
\* suitable question to send_question in order, and returns the number of
\* successful sends.
C7_FailedSendDoesNotStopRun ==
    (pc = "done" /\ Successes # DOMAIN sends) =>
        /\ runResult.kind = "return"
        /\ SendIds = MessageIds(suitable_questions)
        /\ runResult.value = Cardinality(Successes)

\* the first send failed, the second question was sent all the same
C7_SentAfterFailure ==
    /\ pc = "done"
    /\ Len(sends) >= 2
    /\ ~sends[1].success
    /\ sends[2].success

\* C8: a mark_as_sent call that meets no storage error returns True and leaves
\* exactly one row for its key, also when the key already had its row.
C8_MarkTwiceOneRow ==
    (lastCall.op = "mark_as_sent" /\ ~lastCall.error) =>
        /\ lastCall.result = TRUE
        /\ CountMatching(rows, lastCall.chat_id, lastCall.message_id) = 1

\* mark_as_sent returned True for a key that already had its row
C8_SecondMark ==
    /\ lastCall.op = "mark_as_sent"
    /\ lastCall.before = 1
    /\ lastCall.result = TRUE

\* C9: no two rows of sent_questions have the same (chat_id, message_id).
C9_UniqueKeys ==
    \A r1 \in BagToSet(rows) :
        /\ CopiesIn(r1, rows) = 1
        /\ \A r2 \in BagToSet(rows) : RowKey(r1) = RowKey(r2) => r1 = r2

\* two rows are stored and a mark_as_sent for a stored key has just been ignored
C9_IgnoredDuplicate ==
    /\ BagCardinality(rows) = 2
    /\ lastCall.op = "mark_as_sent"
    /\ lastCall.before = 1
    /\ ~lastCall.error

\* C10: is_already_sent, when it meets no storage error, returns True right
\* after a mark_as_sent that returned True for the same stored key, and it
\* returns True only for a stored key some mark_as_sent returned True for.
C10_IsSentAfterMark ==
    [][/\ (/\ lastCall.op = "mark_as_sent" /\ lastCall.result = TRUE
           /\ lastCall'.op = "is_already_sent" /\ ~lastCall'.error
           /\ StoredKey(lastCall'.chat_id, lastCall'.message_id)
                  = StoredKey(lastCall.chat_id, lastCall.message_id)) =>
              lastCall'.result = TRUE
       /\ (lastCall'.op = "is_already_sent" /\ lastCall'.result = TRUE) =>
              StoredKey(lastCall'.chat_id, lastCall'.message_id) \in marked']_vars

\* is_already_sent returned True for a key mark_as_sent had returned True for,
\* while the table holds that row only
C10_MarkedKeyFound ==
    /\ lastCall.op = "is_already_sent"
    /\ ~lastCall.error
    /\ lastCall.result = TRUE
    /\ StoredKey(lastCall.chat_id, lastCall.message_id) \in marked
    /\ BagCardinality(rows) = 1

\* C11: a cleanup_old_records(d) call that meets no storage error deletes
\* exactly the rows with sent_at < now - d, leaves every other row as it was and
\* returns the number of deleted rows; the same call made again at the same
\* time returns 0.
C11_CleanupDeletesOlder ==
    [][(lastCall'.op = "cleanup_old_records" /\ now' = now /\ ~lastCall'.error) =>
          LET d == lastCall'.message_id
          IN  /\ \A r \in BagToSet(rows) \cup BagToSet(rows') :
                     CopiesIn(r, rows') =
                         IF r.sent_at < now - d THEN 0 ELSE CopiesIn(r, rows)
              /\ lastCall'.result = BagCardinality(rows) - BagCardinality(rows')
              /\ (/\ lastCall.op = "cleanup_old_records" /\ ~lastCall.error
                  /\ lastCall.at = now /\ lastCall.message_id = d) =>
                     lastCall'.result = 0]_vars

\* a cleanup has deleted an old row and kept a newer one
C11_OldDeletedNewKept ==
    /\ lastCall.op = "cleanup_old_records"
    /\ ~lastCall.error
    /\ lastCall.result >= 1
    /\ \E r \in BagToSet(rows) : r.sent_at = now - lastCall.message_id

\* C12: an is_already_sent call that meets a storage error returns False and
\* leaves the table as it was.
C12_CheckErrorIsFalse ==
    [][(lastCall'.op = "is_already_sent" /\ lastCall'.error) =>
          (lastCall'.result = FALSE /\ rows' = rows)]_vars

\* the check failed for a key whose row is stored, and answered False
C12_StoredKeyReportedUnsent ==
    /\ lastCall.op = "is_already_sent"
    /\ lastCall.error
    /\ lastCall.result = FALSE
    /\ CountMatching(rows, lastCall.chat_id, lastCall.message_id) = 1

\* C13: mark_as_sent returns False exactly when it met a storage error; without
\* one it returns True whether the key was absent or present, and with one the
\* table keeps the rows it had for the key.
C13_MarkFalseOnlyOnError ==
    lastCall.op = "mark_as_sent" =>
        /\ lastCall.result = (~lastCall.error)
        /\ lastCall.error =>
               CountMatching(rows, lastCall.chat_id, lastCall.message_id)
                   = lastCall.before

\* mark_as_sent met a storage error for an absent key and returned False
C13_MarkFailed ==
    /\ lastCall.op = "mark_as_sent"
    /\ lastCall.error
    /\ lastCall.result = FALSE
    /\ lastCall.before = 0
    /\ BagCardinality(rows) = 1

Range(seq) == {seq[i] : i \in DOMAIN seq}
Validated == vi > NumChats
Running == loopPc \in {"start_message", "monitor", "stats", "sleep"}

\* C14: start_continuous_monitoring lets no exception escape, and once
\* validate_chats has gone through all links and at least one resolved, the
\* loop runs, each process_chat call being for a chat of valid_chats.
C14_LoopRunsOverValid ==
    /\ loopPc # "raised"
    /\ (Validated /\ valid_chats # <<>>) =>
           /\ Running
           /\ loopPc = "monitor" =>
                  /\ iteration >= 1
                  /\ ci \in DOMAIN valid_chats
                  /\ chat \in {0, valid_chats[ci]}

\* a link failed validation and an iteration over the other chat was completed
C14_TickAfterFailedValidation ==
    /\ Validated
    /\ Len(valid_chats) < NumChats
    /\ loopPc = "sleep"
    /\ iteration >= 1
    /\ DOMAIN results = Range(valid_chats)

\* C15: valid_chats is not changed once validate_chats has returned; every
\* iteration starts with its first chat and ends with a result for each chat
\* of valid_chats and for no other, whatever process_chat raised.
C15_WorkingSetFixed ==
    [][/\ loopPc # "validate" => valid_chats' = valid_chats
       /\ (loopPc = "sleep" /\ loopPc' # "sleep") =>
              (loopPc' = "monitor" /\ ci' = 1 /\ pc' = "resolve")
       /\ loopPc' = "monitor" =>
              /\ DOMAIN results' = {valid_chats'[j] : j \in 1..(ci' - 1)}
              /\ chat' \in {0, valid_chats'[ci']}
       /\ loopPc' \in {"stats", "sleep"} =>
              DOMAIN results' = Range(valid_chats')]_vars

\* the chat whose process_chat raised in the first iteration is processed again
\* in the second, while the link that failed validation is left out
C15_FailedChatProcessedAgain ==
    /\ iteration = 2
    /\ raisedLast
    /\ valid_chats = <<watch[1]>>
    /\ chat = watch[1]
    /\ pc = "done"
    /\ runResult.kind = "return"

\* C16: when no link resolved, start_continuous_monitoring has returned: no
\* further step is taken, no iteration was run, process_chat was not called and
\* neither send_text nor send_question was called.
C16_StopsWhenNoneValid ==
    (Validated /\ valid_chats = <<>>) =>
        /\ loopPc = "stopped"
        /\ ~ENABLED Next
        /\ iteration = 0
        /\ pc = "idle"
        /\ results = EmptyResults
        /\ texts_sent = 0
        /\ sends = <<>>

\* every link failed validation and the loop has stopped
C16_Stopped ==
    /\ Validated
    /\ valid_chats = <<>>
    /\ loopPc = "stopped"

\* C17: when process_chat has raised, monitor_chats records 0 for that chat and
\* goes on with the next chat of the list; after the last one the results hold
\* an entry for every chat of valid_chats.
C17_ErrorCountsZero ==
    [][(/\ loopPc = "monitor" /\ pc = "done" /\ runResult.kind = "raise"
        /\ <<loopPc, pc, ci, results>>' # <<loopPc, pc, ci, results>>) =>
          /\ DOMAIN results' = DOMAIN results \cup {valid_chats[ci]}
          /\ results'[valid_chats[ci]] = 0
          /\ \A c \in DOMAIN results \ {valid_chats[ci]} : results'[c] = results[c]
          /\ IF ci < Len(valid_chats)
             THEN loopPc' = "monitor" /\ ci' = ci + 1 /\ pc' = "resolve"
             ELSE loopPc' = "stats" /\ DOMAIN results' = Range(valid_chats)]_vars

\* the first chat raised, the second was processed all the same and delivered
C17_LaterChatProcessed ==
    /\ loopPc = "monitor"
    /\ ci = 2
    /\ valid_chats[1] = watch[1]
    /\ raisedLast
    /\ results[valid_chats[1]] = 0
    /\ pc = "done"
    /\ runResult.kind = "return"
    /\ runResult.value >= 1

RECURSIVE TotalOf(_, _)
TotalOf(counts, links) ==
    IF links = <<>> THEN 0 ELSE counts[Head(links)] + TotalOf(counts, Tail(links))

\* C18: the loop never ends in an exception; every iteration reaches its sleep
\* having sent one statistics message whose total is the sum of the counts of
\* the chats, and every sleep is followed by the next iteration (up to the
\* MaxTicks iterations explored).
C18_LoopGoesOn ==
    /\ [](loopPc # "raised")
    /\ [](Running /\ loopPc # "start_message" =>
             texts_sent = iteration + (IF loopPc = "sleep" THEN 1 ELSE 0))
    /\ [](loopPc = "sleep" =>
             summary = [iteration |-> iteration,
                        total_questions |-> TotalOf(results, valid_chats)])
    /\ \A k \in 1..MaxTicks :
           (loopPc = "monitor" /\ iteration = k) ~> (loopPc = "sleep" /\ iteration = k)
    /\ \A k \in 1..(MaxTicks - 1) :
           (loopPc = "sleep" /\ iteration = k) ~> (loopPc = "monitor" /\ iteration = k + 1)

\* the second iteration has sent its statistics, a question counted in them,
\* after the followed chat had raised
C18_SecondSummarySent ==
    /\ loopPc = "sleep"
    /\ iteration = 2
    /\ raisedLast
    /\ summary.iteration = 2
    /\ summary.total_questions >= 1
    /\ texts_sent = 3

\* C19: is_question_on_topic, can_answer_confidently and is_potential_order
\* return False when the backend call gave no text (it raised, or returned no
\* choices), and a question for which a call of one of its checks failed is
\* neither put among the suitable questions nor handed to send_question.
C19_FailClosed ==
    /\ \A r \in AIResponses :
           BackendFailed(r) =>
               /\ ~is_question_on_topic(r)
               /\ ~can_answer_confidently(r)
               /\ ~is_potential_order(r)
    /\ \A i \in DOMAIN suitable_questions :
           suitable_questions[i].message_id \notin gateFailed
    /\ \A i \in DOMAIN sends : sends[i].message_id \notin gateFailed

\* of two candidates the one whose check failed was left out, the other was sent
C19_FailedCandidateLeftOut ==
    /\ pc = "done"
    /\ Len(filtered_questions) = 2
    /\ Cardinality(gateFailed) = 1
    /\ Len(sends) = 1
    /\ sends[1].success

\* C20: determine_chat_topic returns the fallback topic when the backend call
\* gave no text, and process_chat then goes on: it does not raise, and the
\* checks of the candidates are made with that topic.
C20_TopicFallback ==
    /\ \A r \in TopicResponses : BackendFailed(r) => TopicOf(r) = FallbackTopic
    /\ topicFailed =>
           /\ pc \in {"gate", "send", "done"}
           /\ chat_topic = FallbackTopic
           /\ runResult.kind # "raise"
           /\ qi > 1 => gate_topic = FallbackTopic

\* a run whose topic call failed has checked a question against the fallback
\* topic and has sent it
C20_RunWithFallbackTopic ==
    /\ topicFailed
    /\ pc = "done"
    /\ runResult.kind = "return"
    /\ gate_topic = FallbackTopic
    /\ Len(sends) >= 1
    /\ sends[1].success

\* a is b with some elements left out, the others in the order of b
RECURSIVE IsSubseq(_, _)
IsSubseq(a, b) ==
    IF a = <<>> THEN TRUE
    ELSE IF b = <<>> THEN FALSE
    ELSE IF Head(a) = Head(b) THEN IsSubseq(Tail(a), Tail(b))
    ELSE IsSubseq(a, Tail(b))

IsPrefix(a, b) == Len(a) <= Len(b) /\ a = SubSeq(b, 1, Len(a))

\* C21: in a process_chat run the questions are handed to the AI checks and to
\* send_question in the order the messages were fetched (the sends are the
\* fetched sequence with elements left out); in every iteration process_chat is
\* called for the valid chats in the order of valid_chats, which is the order of
\* the configured chat_links.
C21_FetchOrderKept ==
    /\ gated # <<>> => IsSubseq(gated, MessageIds(messages))
    /\ sends # <<>> => IsSubseq(SendIds, gated)
    /\ IsSubseq(valid_chats, chat_links)
    /\ IsPrefix(called, valid_chats)
    /\ loopPc \in {"stats", "sleep"} => called = valid_chats

\* the second chat's run fetched message 2 before message 1 and sent them so
C21_TwoSentInFetchOrder ==
    /\ pc = "done"
    /\ called = <<1, 2>>
    /\ MessageIds(messages) = <<2, 1>>
    /\ SendIds = <<2, 1>>

\* the messages of the batch the filter kept
Kept == {filtered_questions[i].message_id : i \in DOMAIN filtered_questions}
Filtered == pc = "filtered"

\* C22 as worded: a text of fewer than 20 or more than 700 characters, the
\* whitespace around it counted, is never kept by is_real_question.
C22_RawLengthRejected ==
    Filtered =>
        \A i \in DOMAIN messages :
            RawLength(messages[i].text) < 20 \/ RawLength(messages[i].text) > 700
                => messages[i].message_id \notin Kept

\* C22: a text that has fewer than 20 or more than 700 characters after
\* strip() is never kept by is_real_question, whatever its other properties;
\* so is every text of fewer than 20 characters in all.
C22_StrippedLengthRejected ==
    /\ \A t \in FilterTexts :
           t.length < 20 \/ t.length > 700 \/ RawLength(t) < 20 => ~is_real_question(t)
    /\ Filtered =>
           \A i \in DOMAIN messages :
               messages[i].text.length < 20 \/ messages[i].text.length > 700
                   => messages[i].message_id \notin Kept

\* of a question of 701 characters and one of 700 the filter kept the second
C22_LongDroppedBoundaryKept ==
    /\ Filtered
    /\ Len(messages) = 2
    /\ messages[1].text = WithLength(QuestionText, 701, 0)
    /\ messages[2].text = WithLength(QuestionText, 700, 0)
    /\ Kept = {messages[2].message_id}

\* C23: filter_questions returns the messages of its input for which
\* is_real_question is true, each once and as it was given (text and metadata),
\* in the order of the input, and nothing else; the input list is as it was;
\* an empty input gives an empty output.
C23_FilterIsSubsequence ==
    /\ [](Filtered =>
            /\ IsSubseq(filtered_questions, messages)
            /\ \A i \in DOMAIN filtered_questions :
                   is_real_question(filtered_questions[i].text)
            /\ Len(filtered_questions) =
                   Cardinality({i \in DOMAIN messages : is_real_question(messages[i].text)})
            /\ messages = <<>> => filtered_questions = <<>>)
    /\ [][pc = "filter" => messages' = messages]_vars

\* the filter dropped the greeting and kept the padded question behind it
C23_SecondOfTwoKept ==
    /\ Filtered
    /\ Len(messages) = 2
    /\ messages[1].text = GreetingText
    /\ messages[2].text = WithLength(QuestionText, 20, 10)
    /\ filtered_questions = <<messages[2]>>

\* the configuration errors C24 names
NamedConfigError ==
    \/ \E k \in RequiredVars : env[k].kind \in {"missing", "blank"}
    \/ \E k \in {"MONITORING_INTERVAL", "MESSAGES_LIMIT"} :
           env[k].kind = "number" /\ env[k].n <= 0
    \/ env["MONITORED_CHATS"].kind = "commas"

\* C24: when a required variable is missing or blank, the interval or the
\* message limit is not positive, or the chat list is empty, main returns 1,
\* repository.connect() is never called and start_continuous_monitoring is
\* never started: no chat is validated, no iteration runs, nothing is sent.
C24_ConfigErrorExitsEarly ==
    NamedConfigError =>
        /\ loopPc \in {"startup", "exited"}
        /\ loopPc = "exited" => exit_code = 1
        /\ ~connected
        /\ vi = 1 /\ iteration = 0 /\ called = <<>> /\ texts_sent = 0

\* main has returned 1 for MONITORING_INTERVAL=0
C24_ZeroIntervalExited ==
    /\ env = [ValidEnv EXCEPT !["MONITORING_INTERVAL"] = Number(0)]
    /\ loopPc = "exited"
    /\ exit_code = 1

GateOrder == <<"is_question_on_topic", "can_answer_confidently", "is_potential_order">>
LastGated == gated[Len(gated)]

\* C25: for every candidate process_chat calls is_question_on_topic first,
\* can_answer_confidently only after that returned True, is_potential_order
\* only after both returned True, and no check after one returned False; the
\* candidate is appended to suitable_questions exactly when all three were
\* called and returned True.
C25_GateOrderShortCircuit ==
    gated # <<>> =>
        /\ Len(gate_calls) \in 1..3
        /\ \A i \in DOMAIN gate_calls : gate_calls[i].check = GateOrder[i]
        /\ \A i \in 1..(Len(gate_calls) - 1) : gate_calls[i].answer
        /\ Len(gate_calls) < 3 => ~gate_calls[Len(gate_calls)].answer
        /\ (\E i \in DOMAIN suitable_questions :
                suitable_questions[i].message_id = LastGated)
           <=> (Len(gate_calls) = 3 /\ \A i \in DOMAIN gate_calls : gate_calls[i].answer)

\* the first candidate passed the three checks, the second was dropped after
\* can_answer_confidently said no, without is_potential_order being called
C25_SecondStoppedAtConfidence ==
    /\ Len(gated) = 2
    /\ Len(suitable_questions) = 1
    /\ suitable_questions[1].message_id = gated[1]
    /\ Len(gate_calls) = 2
    /\ ~gate_calls[2].answer

\* C26 as worded: every process_chat run that returns has called
\* determine_chat_topic once.
C26_TopicOnceInEveryRun == RunReturned => topic_call.count = 1

\* C26: a process_chat run calls determine_chat_topic at most once, and exactly
\* once when the filter left at least one question: before the first AI check,
\* with the texts of all fetched messages, and the checks get the topic that
\* call returned in this run. A run that ends before (nothing fetched, no
\* question left, resolve or fetch failed) does not call it.
C26_TopicOncePerGatedRun ==
    /\ topic_call.count <= 1
    /\ gated # <<>> => topic_call.count = 1 /\ gate_topic = chat_topic
    /\ pc \in {"gate", "send"} => topic_call.count = 1
    /\ topic_call.count = 1 =>
           /\ topic_call.input = all_message_texts(messages)
           /\ filtered_questions # <<>>
    /\ pc = "done" => (topic_call.count = 1 <=> filtered_questions # <<>>)
    /\ pc \in {"idle", "resolve", "fetch", "topic"} => topic_call.count = 0 /\ gated = <<>>

\* in the second iteration the topic was asked for a greeting and a question,
\* of which only the question was checked
C26_TopicOfWholeBatch ==
    /\ iteration = 2
    /\ topic_call.count = 1
    /\ all_message_texts(messages) = <<GreetingText, QuestionText>>
    /\ Len(gated) = 1
    /\ chat_topic = FallbackTopic

RunRaised == pc = "done" /\ runResult.kind = "raise"

C28_CancelledBetweenTicks ==
    cancelled_at # NotCancelled => cancelled_at.loopPc \notin {"monitor", "stats"}

RunInProgress == loopPc = "monitor" /\ pc \in {"resolve", "fetch", "topic", "gate", "send", "done"}

\* C29: at most one process_chat call is in progress at any moment; the call
\* for the next chat starts only when the one before has returned or raised;
\* an iteration starts only when the one before is over (its last call ended);
\* the sent_questions table changes only in a step of the call in progress.
C29_OneRunAtATime ==
    /\ [](/\ runs.started - runs.ended \in {0, 1}
          /\ RunInProgress <=> runs.started = runs.ended + 1)
    /\ [][runs'.started # runs.started =>
            /\ runs.started = runs.ended \/ (pc = "done" /\ runs'.ended = runs.ended + 1)
            /\ runs'.started = runs.started + 1]_vars
    /\ [][iteration' # iteration =>
            /\ runs.started = runs.ended
            /\ loopPc \in {"start_message", "sleep"}]_vars
    /\ [][rows' # rows => RunInProgress /\ pc = "send"]_vars

\* in the second iteration the third call is sending, two calls have ended
C29_ThirdRunAfterTwoEnded ==
    /\ iteration = 2
    /\ runs = [started |-> 3, ended |-> 2]
    /\ pc = "send"

\* positions where the reply has the two letters of the word, in either case
YesAt(text) == {i \in 1..(Len(text) - 1) : text[i] \in {"d", "D"} /\ text[i + 1] \in {"a", "A"}}

\* C30: each of the three yes/no checks returns True exactly when the backend
\* gave a reply whose text holds the affirmative word somewhere, in any case of
\* its letters; an empty reply and a response without choices give False.
C30_YesIsSubstringOfLowered ==
    pc = "asked" =>
        /\ answer.result = (answer.response.kind = "content"
                            /\ YesAt(answer.response.content) # {})
        /\ answer.response \in {Reply(<<>>), NoChoices} => ~answer.result

\* the order check said yes to a reply with the word in capitals after another letter
C30_CapitalsInsideWord ==
    /\ pc = "asked"
    /\ answer = Answer("is_potential_order", Reply(<<"n", "D", "A">>), TRUE)

\* the seven words of the rule as worded: how, what, where, when, why (почему
\* and зачем), who, which
SevenWords == {"kak", "chto", "gde", "kogda", "pochemu", "zachem", "kto", "kakoi"}

\* C31: a text that no other check rejects is rejected as rhetorical exactly
\* when it matches a rhetorical phrase, or is shorter than 40 characters, holds
\* "?" and holds none of the seven interrogative words; a short text with "?"
\* and one of the seven words that matches no rhetorical phrase is kept.
C31_SevenWordsKeepShortQuestion ==
    Filtered =>
        \A i \in DOMAIN messages :
            LET text == messages[i].text
                short == text.length < 40 /\ text.question_mark
            IN  /\ messages[i].message_id \notin Kept <=>
                      \/ text.rhetorical_pattern
                      \/ short /\ text.interrogatives \cap SevenWords = {}
                /\ (short /\ ~text.rhetorical_pattern
                        /\ text.interrogatives \cap SevenWords # {}) =>
                      messages[i].message_id \in Kept

\* C32: a stored row is never changed: is_already_sent and mark_as_sent leave
\* every stored row as it is, the row of the marked key included; a row that
\* is added has a key no stored row had; rows go away only in
\* cleanup_old_records.
C32_RowsNeverUpdated ==
    [][/\ \A r \in BagToSet(rows) :
             CopiesIn(r, rows') < CopiesIn(r, rows) =>
                 lastCall'.op = "cleanup_old_records"
       /\ lastCall'.op \in {"mark_as_sent", "is_already_sent"} =>
             \A r \in BagToSet(rows) : CopiesIn(r, rows') = CopiesIn(r, rows)
       /\ \A r \in BagToSet(rows') :
             CopiesIn(r, rows') > CopiesIn(r, rows) =>
                 \A x \in BagToSet(rows) : RowKey(x) # RowKey(r)]_vars

\* mark_as_sent returned True at time 1 for a key stored at time 0, and the
\* row still carries time 0
C32_SecondMarkKeptFirstRow ==
    /\ lastCall.op = "mark_as_sent" /\ ~lastCall.error
    /\ lastCall.before = 1 /\ lastCall.at = 1
    /\ \E r \in BagToSet(rows) :
          /\ RowKey(r) = StoredKey(lastCall.chat_id, lastCall.message_id)
          /\ r.sent_at = 0
    /\ BagCardinality(rows) = 1

\* the message of the stream with this id was not skipped by the client
Yielded(message_id) ==
    \E j \in DOMAIN stream :
        /\ stream[j].message_id = message_id
        /\ j <= messages_limit
        /\ ~stream[j].pinned
        /\ stream[j].has_text /\ stream[j].text # EmptyText

\* C33: process_chat collects at most messages_limit messages from a fetch,
\* none of them pinned, none with an empty text or without text; the same holds
\* for the filtered questions, for the texts given to determine_chat_topic and
\* for the questions checked by the AI.
C33_NoPinnedNoEmpty ==
    /\ Len(messages) <= messages_limit
    /\ \A i \in DOMAIN messages :
          Yielded(messages[i].message_id) /\ messages[i].text # EmptyText
    /\ \A i \in DOMAIN filtered_questions : Yielded(filtered_questions[i].message_id)
    /\ \A i \in DOMAIN gated : Yielded(gated[i])
    /\ Len(topic_call.input) <= messages_limit
    /\ \A i \in DOMAIN topic_call.input : topic_call.input[i] # EmptyText

\* a stream longer than the limit with a pinned message among the first ones:
\* the message after the pinned one was checked by the AI, the last one of the
\* stream, a question beyond the limit, was not collected
C33_PinnedSkippedLimitKept ==
    /\ Len(stream) = messages_limit + 1
    /\ stream[1].pinned /\ stream[1].has_text
    /\ ~Skipped(stream[Len(stream)])
    /\ gated = <<stream[2].message_id>>
    /\ Len(messages) = 1

\* C34: send_question and send_text never hand more than 4096 characters to
\* send_message and always hand the text over; a text of at most 4096
\* characters goes unchanged, a longer one as its first 4093 characters and
\* three dots; the result is False only when send_message raised.
C34_TruncatedNeverRejected ==
    sink.method \in {"send_question", "send_text"} =>
        /\ Len(sink.sent) <= 4096
        /\ Len(sink.given) <= 4096 => sink.sent = sink.given
        /\ Len(sink.given) > 4096 =>
              /\ Len(sink.sent) = 4096
              /\ \A i \in 1..4093 : sink.sent[i] = sink.given[i]
              /\ \A i \in 4094..4096 : sink.sent[i] = "."
        /\ sink.result = (sink.outcome = "ok")

\* send_text got 4100 characters and delivered 4096
C34_LongTextDelivered ==
    /\ sink.method = "send_text"
    /\ Len(sink.given) = 4100 /\ Len(sink.sent) = 4096
    /\ sink.result

\* C35: a process_chat run whose fetch gave no message, or only messages that
\* filter_questions drops, has returned 0 with the fetch: it has called neither
\* determine_chat_topic nor an AI check nor send_question, and the
\* sent_questions table is as the run found it.
C35_NothingToCheckReturnsZero ==
    (fetched /\ raised_in = NotRaised /\ filter_questions(messages) = <<>>) =>
        /\ pc = "done" /\ runResult = Returned(0)
        /\ topic_call = NoTopicCall
        /\ gated = <<>> /\ gate_calls = <<>>
        /\ sends = <<>> /\ sent_count = 0
        /\ rows = rows0

\* in the second iteration a run fetched two greetings and returned 0
C35_OnlyGreetingsFetched ==
    /\ iteration = 2
    /\ fetched /\ Len(messages) = 2
    /\ \A i \in DOMAIN messages : messages[i].text = GreetingText
    /\ runResult = Returned(0)

MainEnded == loopPc = "exited"

\* C36: when main has ended and both repository and bot_adapter had been
\* created, repository.disconnect() and bot_adapter.close() have each been
\* called exactly once, also when the disconnect failed; neither is called
\* before the finally block, neither twice.
C36_CleanupOnEveryPath ==
    /\ cleanup.disconnects <= 1 /\ cleanup.closes <= 1
    /\ loopPc \notin {"finally_close", "exited"} => cleanup = NoCleanup
    /\ (MainEnded /\ components = AllComponents) =>
          cleanup.disconnects = 1 /\ cleanup.closes = 1
    /\ (MainEnded /\ cleanup.disconnect_failed) => cleanup.closes = 1

\* main returned 0 after a signal in the second iteration; the client failed to
\* disconnect and the bot was closed all the same
C36_ClosedAfterFailedDisconnect ==
    /\ MainEnded /\ exit_code = 0
    /\ iteration = 2
    /\ cleanup = [disconnects |-> 1, closes |-> 1, disconnect_failed |-> TRUE]

\* C37: once start_continuous_monitoring has returned because no chat was
\* valid, main ends, with no shutdown signal needed.
C37_StoppedTaskEndsMain == (loopPc = "stopped") ~> MainEnded

\* the calls after which the flag has to be off: a disconnect, a connect that raised
TurnsOff(call) ==
    \/ call.op = "disconnect"
    \/ call.op = "connect" /\ call.result # "returned"

\* C38: _is_connected is True only after a connect() that returned and before
\* the next disconnect(); after a connect() that raised and after a
\* disconnect() it is False; a connect() on a connected adapter and a
\* disconnect() on a disconnected one change nothing; get_chat_info and
\* get_recent_messages raise ConnectionError when the adapter is not connected.
C38_FlagFollowsConnect ==
    /\ connected =>
          \E i \in DOMAIN client_log :
              /\ client_log[i].op = "connect" /\ client_log[i].result = "returned"
              /\ \A j \in (i + 1)..Len(client_log) : client_log[j].op # "disconnect"
    /\ \A i \in DOMAIN client_log :
          /\ (TurnsOff(client_log[i]) /\ i = Len(client_log)) => ~connected
          /\ (client_log[i].op = "connect" /\ client_log[i].was_connected) =>
                client_log[i].noop /\ client_log[i].result = "returned"
          /\ (client_log[i].op = "disconnect" /\ ~client_log[i].was_connected) =>
                client_log[i].noop
          /\ (client_log[i].op \in {"get_chat_info", "get_recent_messages"}
                /\ ~client_log[i].was_connected) =>
                client_log[i].result = "ConnectionError"

====
